---- MODULE Spec2Model ----
(***************************************************************************)
(* Conversation state machine, tool-call pipeline and chat orchestration   *)
(* of the legal-document assistant (backend/features/chat, backend/tools). *)
(*                                                                         *)
(* Encoding of Python values                                               *)
(*   - a JSON value is a tagged record: JNone, JBool(b), JNum(n), JStr(s), *)
(*     JText(seq), JObj(f), JList(seq of strings);                         *)
(*   - a dict is a function whose DOMAIN is its key set;                   *)
(*   - a str that is only compared is a TLA+ string (JStr); a str that is  *)
(*     concatenated or searched is a sequence of tokens (JText);           *)
(*   - the confidence score is kept in hundredths (0.5 is 50).            *)
(***************************************************************************)
EXTENDS Integers, Sequences, FiniteSets, TLC

(***************************************************************************)
(* JSON values                                                             *)
(***************************************************************************)
JNone == [t |-> "null"]
JBool(b) == [t |-> "bool", v |-> b]
JNum(n) == [t |-> "number", v |-> n]
JStr(s) == [t |-> "string", v |-> s]
JText(s) == [t |-> "text", v |-> s]
JObj(f) == [t |-> "object", v |-> f]
JList(s) == [t |-> "array", v |-> s]

EmptyDict == <<>>

IsStr(x) == x.t \in {"string", "text"}
IsBool(x) == x.t = "bool"
\* jsonschema "number" and isinstance(x, (int, float)) differ on bool only
IsNumber(x) == x.t = "number"
IsObj(x) == x.t = "object"

\* dict.get(key) with the default None
Get(d, k) == IF k \in DOMAIN d THEN d[k] ELSE JNone

\* dict.get(key, default)
GetOr(d, k, default) == IF k \in DOMAIN d THEN d[k] ELSE default

\* Python truthiness of a value
Truthy(x) ==
    CASE x.t = "null" -> FALSE
      [] x.t = "bool" -> x.v
      [] x.t = "number" -> x.v # 0
      [] x.t = "string" -> x.v # ""
      [] x.t = "text" -> x.v # <<>>
      [] x.t = "object" -> DOMAIN x.v # {}
      [] x.t = "array" -> x.v # <<>>

\* {**a, **b} and dict.update: keys of b win
DictUpdate(a, b) ==
    [k \in (DOMAIN a) \cup (DOMAIN b) |-> IF k \in DOMAIN b THEN b[k] ELSE a[k]]

Range(s) == {s[i] : i \in DOMAIN s}

\* str(n) for the integers the model uses
DigitStr(n) ==
    CASE n = 0 -> "0" [] n = 1 -> "1" [] n = 2 -> "2" [] n = 3 -> "3"
      [] n = 4 -> "4" [] n = 5 -> "5" [] OTHER -> "n"

\* the tokens an f-string writes for a value
FormatTokens(x) ==
    CASE x.t = "text" -> x.v
      [] x.t = "string" -> IF x.v = "" THEN <<>> ELSE <<x.v>>
      [] x.t = "number" -> <<DigitStr(x.v)>>
      [] x.t = "bool" -> IF x.v THEN <<"True">> ELSE <<"False">>
      [] x.t = "null" -> <<"None">>
      [] OTHER -> <<"{...}">>

(***************************************************************************)
(* features/chat/state.py                                                  *)
(***************************************************************************)
Phases == {"intake", "clarification", "generation", "revision"}

phase_order == <<"intake", "clarification", "generation", "revision">>

DocumentTypes == {"NDA", "EMPLOYMENT", "SERVICE", "LEASE"}

REQUIRED_FIELDS_BY_DOCTYPE ==
    [NDA |-> <<"party_a_name", "party_b_name", "confidential_info_type",
               "duration", "governing_law">>,
     EMPLOYMENT |-> <<"employer_name", "employer_address", "employee_name",
                      "employee_address", "job_title", "job_duties", "salary",
                      "start_date", "governing_law">>,
     SERVICE |-> <<"service_provider_name", "client_name", "scope_of_services",
                   "payment_terms", "duration", "governing_law">>,
     LEASE |-> <<"landlord_name", "tenant_name", "property_address",
                 "rent_amount", "lease_duration", "security_deposit",
                 "governing_law">>]

\* REQUIRED_FIELDS_BY_DOCTYPE.get(value, REQUIRED_FIELDS_BY_DOCTYPE["NDA"])
RequiredFields(doctype) ==
    IF doctype \in DOMAIN REQUIRED_FIELDS_BY_DOCTYPE
    THEN REQUIRED_FIELDS_BY_DOCTYPE[doctype]
    ELSE REQUIRED_FIELDS_BY_DOCTYPE["NDA"]

\* list.remove(x): drops the first occurrence only
RECURSIVE ListRemove(_, _)
ListRemove(s, x) ==
    IF s = <<>> THEN <<>>
    ELSE IF Head(s) = x THEN Tail(s)
    ELSE <<Head(s)>> \o ListRemove(Tail(s), x)

\* for key in keys: if key in lst: lst.remove(key)
RECURSIVE RemoveEach(_, _)
RemoveEach(lst, keys) ==
    IF keys = {} THEN lst
    ELSE LET key == CHOOSE k \in keys : TRUE
             rest == IF key \in Range(lst) THEN ListRemove(lst, key) ELSE lst
         IN RemoveEach(rest, keys \ {key})

\* ConversationState() as the dataclass and __post_init__ build it
InitialState ==
    [phase |-> "intake",
     document_type |-> "NDA",
     expertise |-> "intermediate",
     collected_data |-> EmptyDict,
     missing_fields |-> RequiredFields("NDA"),
     current_document |-> JNone,
     document_metadata |-> EmptyDict]

\* mutant: the setter forgets the fields already collected
SetDocumentTypeAllRequired(st, value) ==
    IF st.document_type # value
    THEN [st EXCEPT !.document_type = value,
                    !.missing_fields = RequiredFields(value)]
    ELSE st

\* mutant: the setter leaves missing_fields as they were
SetDocumentTypeKeepsMissing(st, value) ==
    [st EXCEPT !.document_type = value]

\* the document_type setter
SetDocumentType(st, value) ==
    IF st.document_type # value
    THEN [st EXCEPT !.document_type = value,
                    !.missing_fields =
                        RemoveEach(RequiredFields(value), DOMAIN st.collected_data)]
    ELSE st

\* ConversationState.update_collected_data
\* mutant: a key already collected keeps its value
UpdateCollectedDataKeepsOld(st, data) ==
    [st EXCEPT !.collected_data = DictUpdate(data, st.collected_data),
               !.missing_fields = RemoveEach(st.missing_fields, DOMAIN data)]

\* mutant: the new data replaces what was collected
UpdateCollectedDataReplaces(st, data) ==
    [st EXCEPT !.collected_data = data,
               !.missing_fields = RemoveEach(st.missing_fields, DOMAIN data)]

UpdateCollectedData(st, data) ==
    [st EXCEPT !.collected_data = DictUpdate(st.collected_data, data),
               !.missing_fields = RemoveEach(st.missing_fields, DOMAIN data)]

PhaseIndex(p) == CHOOSE i \in DOMAIN phase_order : phase_order[i] = p

\* mutant: advance_phase wraps around after the last phase
AdvancePhaseOfCyclic(st) ==
    LET current_index == PhaseIndex(st.phase)
    IN [st EXCEPT !.phase = phase_order[(current_index % Len(phase_order)) + 1]]

\* ConversationState.advance_phase
AdvancePhaseOf(st) ==
    LET current_index == PhaseIndex(st.phase)
    IN IF current_index < Len(phase_order)
       THEN [st EXCEPT !.phase = phase_order[current_index + 1]]
       ELSE st

\* ConversationState.to_context
ToContext(st) ==
    [phase |-> st.phase,
     document_type |-> st.document_type,
     expertise |-> st.expertise,
     collected_data |-> st.collected_data,
     missing_fields |-> st.missing_fields,
     current_document |-> st.current_document,
     document_metadata |-> st.document_metadata]

(***************************************************************************)
(* tools/validation.py                                                     *)
(***************************************************************************)
Intents == {"create_document", "modify_document", "ask_question",
            "provide_info", "unclear"}

AnalyzeDocTypes == {"NDA", "EMPLOYMENT", "SERVICE", "LEASE", "UNKNOWN"}

SectionTypes == {"header", "parties", "recitals", "definitions",
                 "confidential_info", "obligations", "exclusions",
                 "term_termination", "remedies", "general_provisions",
                 "signatures"}

RevisionTypes == {"modify", "delete", "add", "replace"}

KnownTools == {"analyze_request", "extract_structured_data",
               "validate_completeness", "generate_document_section",
               "generate_full_document", "apply_revision"}

InEnum(x, S) == x.t = "string" /\ x.v \in S

\* {"type": "array", "items": {"type": "string"}}; the arrays of the model
\* hold strings only
IsStrList(x) == x.t = "array"

IsIntent(x) == InEnum(x, Intents)
IsAnalyzeDocType(x) == InEnum(x, AnalyzeDocTypes)
IsConfidence(x) == IsNumber(x) /\ x.v >= 0 /\ x.v <= 100
IsSectionType(x) == InEnum(x, SectionTypes)
IsFullDocType(x) == InEnum(x, DocumentTypes)
IsRevisionType(x) == InEnum(x, RevisionTypes)

\* VALIDATION_SCHEMAS[tool_name], as jsonschema.validate decides it; the
\* constraint of a property applies only when the key is present
SchemaValid(tool_name, d) ==
    CASE tool_name = "analyze_request" ->
           /\ "intent" \in DOMAIN d
           /\ ("intent" \in DOMAIN d => IsIntent(d["intent"]))
           /\ ("document_type" \in DOMAIN d => IsAnalyzeDocType(d["document_type"]))
           /\ ("confidence" \in DOMAIN d => IsConfidence(d["confidence"]))
      [] tool_name = "extract_structured_data" ->
           /\ ("party_a" \in DOMAIN d => IsObj(d["party_a"]))
           /\ ("party_b" \in DOMAIN d => IsObj(d["party_b"]))
           /\ ("confidential_info" \in DOMAIN d => IsObj(d["confidential_info"]))
           /\ ("duration" \in DOMAIN d => IsObj(d["duration"]))
           /\ ("governing_law" \in DOMAIN d => IsStr(d["governing_law"]))
      [] tool_name = "validate_completeness" ->
           /\ "is_complete" \in DOMAIN d
           /\ ("is_complete" \in DOMAIN d => IsBool(d["is_complete"]))
           /\ ("ready_to_generate" \in DOMAIN d => IsBool(d["ready_to_generate"]))
           /\ ("missing_required" \in DOMAIN d => IsStrList(d["missing_required"]))
      [] tool_name = "generate_document_section" ->
           /\ {"section_type", "content"} \subseteq DOMAIN d
           /\ ("section_type" \in DOMAIN d => IsSectionType(d["section_type"]))
           /\ ("content" \in DOMAIN d => IsStr(d["content"]))
      [] tool_name = "generate_full_document" ->
           /\ {"document_type", "title", "content"} \subseteq DOMAIN d
           /\ ("document_type" \in DOMAIN d => IsFullDocType(d["document_type"]))
           /\ ("title" \in DOMAIN d => IsStr(d["title"]))
           /\ ("content" \in DOMAIN d => IsStr(d["content"]))
           /\ ("metadata" \in DOMAIN d => IsObj(d["metadata"]))
           /\ ("use_reflection" \in DOMAIN d => IsBool(d["use_reflection"]))
      [] tool_name = "apply_revision" ->
           /\ {"target_section", "revised_text"} \subseteq DOMAIN d
           /\ ("target_section" \in DOMAIN d => IsStr(d["target_section"]))
           /\ ("revision_type" \in DOMAIN d => IsRevisionType(d["revision_type"]))
           /\ ("revised_text" \in DOMAIN d => IsStr(d["revised_text"]))
      [] OTHER -> TRUE

\* recovered[key] = value
DictSet(d, k, x) == DictUpdate(d, [kk \in {k} |-> x])

\* isinstance(x, (int, float)): bool is a subclass of int
IsIntOrFloat(x) == x.t \in {"number", "bool"}

\* mutant: min(1, confidence), no floor
ClampConfidenceNoFloor(x) ==
    IF x.t = "bool" THEN JNum(IF x.v THEN 100 ELSE 0)
    ELSE JNum(IF x.v > 100 THEN 100 ELSE x.v)

\* max(0, min(1, confidence)), hundredths; True and False come out as 1 and 0
ClampConfidence(x) ==
    IF x.t = "bool" THEN JNum(IF x.v THEN 100 ELSE 0)
    ELSE JNum(IF x.v > 100 THEN 100 ELSE IF x.v < 0 THEN 0 ELSE x.v)

\* mutant: recovery defaults a missing section_type
RecoveryFixDefaultsSection(tool_name, input_data) ==
    IF tool_name = "generate_document_section"
    THEN [ok |-> TRUE,
          value |-> DictUpdate([section_type |-> JStr("general_provisions"),
                                content |-> JText(<<>>)], input_data)]
    ELSE [ok |-> TRUE, value |-> input_data]

\* the tool-specific repairs of attempt_recovery, before re-validation;
\* ok = FALSE is the early "return None"
RecoveryFix(tool_name, input_data) ==
    CASE tool_name = "analyze_request" ->
           LET r1 == IF "confidence" \notin DOMAIN input_data
                        \/ ~IsIntOrFloat(input_data["confidence"])
                     THEN DictSet(input_data, "confidence", JNum(50))
                     ELSE input_data
               r2 == IF IsIntOrFloat(r1["confidence"])
                     THEN DictSet(r1, "confidence", ClampConfidence(r1["confidence"]))
                     ELSE r1
               r3 == IF "intent" \notin DOMAIN r2
                     THEN DictSet(r2, "intent", JStr("unclear"))
                     ELSE r2
               r4 == IF ~IsIntent(r3["intent"])
                     THEN DictSet(r3, "intent", JStr("unclear"))
                     ELSE r3
           IN [ok |-> TRUE, value |-> r4]
      [] tool_name = "validate_completeness" ->
           LET r1 == IF "is_complete" \notin DOMAIN input_data
                     THEN DictSet(input_data, "is_complete", JBool(FALSE))
                     ELSE input_data
               r2 == IF ~IsBool(r1["is_complete"])
                     THEN DictSet(r1, "is_complete", JBool(Truthy(r1["is_complete"])))
                     ELSE r1
           IN [ok |-> TRUE, value |-> r2]
      [] tool_name = "generate_document_section" ->
           LET r1 == IF "content" \notin DOMAIN input_data
                     THEN DictSet(input_data, "content", JText(<<>>))
                     ELSE input_data
           IN [ok |-> "section_type" \in DOMAIN r1, value |-> r1]
      [] tool_name = "apply_revision" ->
           LET r1 == IF "revision_type" \notin DOMAIN input_data
                     THEN DictSet(input_data, "revision_type", JStr("modify"))
                     ELSE input_data
               r2 == IF "revised_text" \notin DOMAIN r1
                     THEN DictSet(r1, "revised_text", JText(<<>>))
                     ELSE r1
           IN [ok |-> TRUE, value |-> r2]
      [] OTHER -> [ok |-> TRUE, value |-> input_data]

\* attempt_recovery: ok = FALSE is None
attempt_recovery(tool_name, input_data) ==
    LET fixed == RecoveryFix(tool_name, input_data)
    IN IF fixed.ok /\ SchemaValid(tool_name, fixed.value)
       THEN fixed
       ELSE [ok |-> FALSE, value |-> EmptyDict]

\* validate_tool_input: ok = FALSE is ToolValidationError
validate_tool_input(tool_name, input_data) ==
    IF tool_name \notin KnownTools THEN [ok |-> TRUE, value |-> input_data]
    ELSE IF SchemaValid(tool_name, input_data) THEN [ok |-> TRUE, value |-> input_data]
    ELSE LET recovered == attempt_recovery(tool_name, input_data)
         IN IF recovered.ok /\ DOMAIN recovered.value # {}
            THEN recovered
            ELSE [ok |-> FALSE, value |-> EmptyDict]

(***************************************************************************)
(* Raw tool-call arguments.  The string the model returns is one of        *)
(*   RawJson(x)    text that json.loads parses to the JSON value x, not    *)
(*                 null                                                    *)
(*   RawFenced(x)  prose holding a ``` block whose body parses to x        *)
(*   RawBraces(d)  prose holding one {...} span that parses to the dict d  *)
(*   RawText(w)    any other text, as its sequence of lower-case words;    *)
(*                 RawText(<<>>) is the empty string                       *)
(***************************************************************************)
RawJson(x) == [kind |-> "json", value |-> x, words |-> <<>>]
RawFenced(x) == [kind |-> "fenced", value |-> x, words |-> <<>>]
RawBraces(d) == [kind |-> "braces", value |-> JObj(d), words |-> <<>>]
RawText(w) == [kind |-> "text", value |-> JNone, words |-> w]

\* safe_parse_json: JNone is None; json.loads("null") is None as well
safe_parse_json(arguments) ==
    IF arguments.kind = "text" THEN JNone ELSE arguments.value

HasAny(words, keywords) == Range(words) \cap keywords # {}

\* the first section of section_keywords, in dict order, with a keyword in the text
SectionKeywords ==
    <<[section |-> "header", keywords |-> {"header", "title", "agreement"}],
      [section |-> "parties", keywords |-> {"parties", "party a", "party b"}],
      [section |-> "definitions", keywords |-> {"definitions", "defined terms"}],
      [section |-> "obligations", keywords |-> {"obligations", "shall", "must"}],
      [section |-> "confidential_info",
       keywords |-> {"confidential information", "protected"}],
      [section |-> "term_termination",
       keywords |-> {"term", "termination", "duration"}],
      [section |-> "remedies", keywords |-> {"remedies", "breach", "damages"}]>>

DetectSection(words) ==
    LET hits == {i \in DOMAIN SectionKeywords :
                    HasAny(words, SectionKeywords[i].keywords)}
    IN IF hits = {} THEN "general_provisions"
       ELSE SectionKeywords[CHOOSE i \in hits : \A j \in hits : i <= j].section

FREETEXT_CONFIDENCE == 30

\* the five jurisdictions extract_from_freetext looks for, in list order
Jurisdictions == <<"california", "delaware", "new york", "texas", "florida">>

JurisdictionName(w) ==
    CASE w = "california" -> "California" [] w = "delaware" -> "Delaware"
      [] w = "new york" -> "New York" [] w = "texas" -> "Texas"
      [] OTHER -> "Florida"

DurationUnits == {"year", "month", "day", "years", "months", "days"}

PluralUnit(u) ==
    CASE u \in {"year", "years"} -> "years"
      [] u \in {"month", "months"} -> "months"
      [] OTHER -> "days"

\* extract_from_freetext: keyword and pattern heuristics on the words
extract_from_freetext(words, tool_name) ==
    CASE tool_name = "analyze_request" ->
           [intent |->
               JStr(IF HasAny(words, {"create", "generate", "make", "need"})
                    THEN "create_document"
                    ELSE IF HasAny(words, {"change", "modify", "update", "edit"})
                    THEN "modify_document"
                    ELSE IF "?" \in Range(words) THEN "ask_question"
                    ELSE "unclear"),
            document_type |->
               JStr(IF HasAny(words, {"nda", "non-disclosure", "confidential"})
                    THEN "NDA"
                    ELSE IF "employ" \in Range(words) THEN "EMPLOYMENT"
                    ELSE "UNKNOWN"),
            confidence |-> JNum(FREETEXT_CONFIDENCE)]
      [] tool_name = "extract_structured_data" ->
           LET \* the three name_patterns, a name being the word that follows:
               \* "party a: N", "party b: N", "between N and M"
               p1 == {i \in DOMAIN words : i > 1 /\ words[i - 1] = "party a:"}
               p2 == {i \in DOMAIN words : i > 1 /\ words[i - 1] = "party b:"}
               p3 == {i \in DOMAIN words :
                        /\ i > 1 /\ words[i - 1] = "between"
                        /\ i + 2 <= Len(words) /\ words[i + 1] = "and"}
               d == {i \in DOMAIN words :
                        /\ i > 1 /\ words[i] \in DurationUnits
                        /\ words[i - 1] \in {"1", "2", "3", "4", "5"}}
               g == {i \in DOMAIN Jurisdictions : Jurisdictions[i] \in Range(words)}
               First(S) == CHOOSE i \in S : \A j \in S : i <= j
               DigitOf(w) == CHOOSE n \in 1..5 : DigitStr(n) = w
               Name(i) == JObj([name |-> JStr(words[i])])
               \* group(1) of the first pattern that matches is party_a;
               \* only the third pattern has a group(2)
               e1 == IF p1 # {} THEN [party_a |-> Name(First(p1))]
                     ELSE IF p2 # {} THEN [party_a |-> Name(First(p2))]
                     ELSE IF p3 # {} THEN [party_a |-> Name(First(p3))]
                     ELSE EmptyDict
               e2 == IF p3 = {} THEN e1
                     ELSE DictUpdate(e1, [party_b |-> Name(First(p3) + 2)])
               e3 == IF d = {} THEN e2
                     ELSE DictUpdate(e2,
                            [duration |->
                               JObj([value |-> JNum(DigitOf(words[First(d) - 1])),
                                     unit |-> JStr(PluralUnit(words[First(d)]))])])
           IN IF g = {} THEN e3
              ELSE DictUpdate(e3,
                     [governing_law |->
                        JStr(JurisdictionName(Jurisdictions[First(g)]))])
      [] tool_name = "validate_completeness" ->
           LET complete == HasAny(words, {"complete", "ready", "sufficient",
                                          "all required"})
               m == {i \in DOMAIN words : words[i] = "missing:"}
               base == [is_complete |-> JBool(complete),
                        ready_to_generate |-> JBool(complete)]
           IN IF m = {} THEN base
              ELSE LET first == CHOOSE i \in m : \A j \in m : i <= j
                   IN DictUpdate(base,
                        [missing_required |->
                           JList(SubSeq(words, first + 1, Len(words)))])
      [] tool_name = "generate_document_section" ->
           [content |-> JText(words),
            section_type |-> JStr(DetectSection(words))]
      [] tool_name = "apply_revision" ->
           [revised_text |-> JText(words),
            revision_type |-> JStr("modify"),
            target_section |-> JStr("unknown")]
      [] OTHER -> EmptyDict

\* mutant: the fallback of apply_revision is an addition
get_minimal_valid_inputAddsRevision(tool_name) ==
    CASE tool_name = "analyze_request" ->
           [intent |-> JStr("unclear"), document_type |-> JStr("UNKNOWN"),
            confidence |-> JNum(0)]
      [] tool_name = "extract_structured_data" -> EmptyDict
      [] tool_name = "validate_completeness" ->
           [is_complete |-> JBool(FALSE), ready_to_generate |-> JBool(FALSE),
            missing_required |-> JList(<<"unknown">>)]
      [] tool_name = "generate_document_section" ->
           [section_type |-> JStr("general_provisions"),
            content |-> JText(<<"[Content generation failed]">>)]
      [] tool_name = "apply_revision" ->
           [target_section |-> JStr("unknown"), revision_type |-> JStr("add"),
            revised_text |-> JText(<<>>)]
      [] OTHER -> EmptyDict

\* get_minimal_valid_input
get_minimal_valid_input(tool_name) ==
    CASE tool_name = "analyze_request" ->
           [intent |-> JStr("unclear"), document_type |-> JStr("UNKNOWN"),
            confidence |-> JNum(0)]
      [] tool_name = "extract_structured_data" -> EmptyDict
      [] tool_name = "validate_completeness" ->
           [is_complete |-> JBool(FALSE), ready_to_generate |-> JBool(FALSE),
            missing_required |-> JList(<<"unknown">>)]
      [] tool_name = "generate_document_section" ->
           [section_type |-> JStr("general_provisions"),
            content |-> JText(<<"[Content generation failed]">>)]
      [] tool_name = "apply_revision" ->
           [target_section |-> JStr("unknown"), revision_type |-> JStr("modify"),
            revised_text |-> JText(<<>>)]
      [] OTHER -> EmptyDict

\* what validate_tool_input does with a parsed value that is no dict:
\* "raise" is an exception other than ToolValidationError (input_data.copy()
\* on a scalar, item assignment or .get on a list), "invalid" is
\* ToolValidationError, "pass" returns the value as it is
NonDictValidation(tool_name, parsed) ==
    IF tool_name \notin KnownTools THEN "pass"
    ELSE IF parsed.t # "array" THEN "raise"
    ELSE CASE tool_name \in {"analyze_request", "validate_completeness"} -> "raise"
           [] tool_name = "generate_document_section" ->
                IF "content" \in Range(parsed.v) THEN "invalid" ELSE "raise"
           [] tool_name = "apply_revision" ->
                IF {"revision_type", "revised_text"} \subseteq Range(parsed.v)
                THEN "invalid" ELSE "raise"
           [] OTHER -> "invalid"

\* validate_and_parse_tool_call: [raised, input]; input is the JSON value
\* returned (a JObj except for a tool without schema)
validate_and_parse_tool_call(tool_name, arguments) ==
    LET json == safe_parse_json(arguments)
        parsed == IF json = JNone
                  THEN JObj(extract_from_freetext(arguments.words, tool_name))
                  ELSE json
        minimal == [raised |-> FALSE, input |-> JObj(get_minimal_valid_input(tool_name))]
    IN IF ~IsObj(parsed)
       THEN CASE NonDictValidation(tool_name, parsed) = "raise" ->
                   [raised |-> TRUE, input |-> JNone]
              [] NonDictValidation(tool_name, parsed) = "invalid" -> minimal
              [] OTHER -> [raised |-> FALSE, input |-> parsed]
       ELSE LET validated == validate_tool_input(tool_name, parsed.v)
            IN IF validated.ok
               THEN [raised |-> FALSE, input |-> JObj(validated.value)]
               ELSE minimal

(***************************************************************************)
(* prompts/patterns/reflection.py: the table generate_full_document reads  *)
(***************************************************************************)
CRITICAL_SECTIONS_BY_DOCTYPE ==
    [NDA |-> <<"confidential_info", "obligations", "exclusions", "remedies">>,
     EMPLOYMENT |-> <<"compensation", "termination", "non_compete",
                      "intellectual_property">>,
     SERVICE |-> <<"scope_of_work", "payment_terms", "liability", "termination">>,
     LEASE |-> <<"rent_terms", "maintenance", "termination", "security_deposit">>]

\* CRITICAL_SECTIONS_BY_DOCTYPE.get(document_type, {}).get("critical", [])
CriticalSections(document_type) ==
    IF document_type \in DOMAIN CRITICAL_SECTIONS_BY_DOCTYPE
    THEN CRITICAL_SECTIONS_BY_DOCTYPE[document_type]
    ELSE <<>>

(***************************************************************************)
(* tools/handlers.py                                                       *)
(* A handler yields [state, result, raised]: the state it leaves, and      *)
(* either the result it returns or the fact that it raised.                *)
(***************************************************************************)
Returned(st, res) == [state |-> st, result |-> res, raised |-> FALSE]
Raised(st) == [state |-> st, result |-> JNone, raised |-> TRUE]

HIGH_CONFIDENCE == 80
LOW_CONFIDENCE == 40
DEFAULT_CONFIDENCE == 50

\* mutant: a confidence of exactly LOW_CONFIDENCE is reported low
ConfidenceLevelLowAtThreshold(c) ==
    IF c >= HIGH_CONFIDENCE THEN "high"
    ELSE IF c > LOW_CONFIDENCE THEN "medium"
    ELSE "low"

\* the confidence_level of the result
ConfidenceLevel(c) ==
    IF c >= HIGH_CONFIDENCE THEN "high"
    ELSE IF c >= LOW_CONFIDENCE THEN "medium"
    ELSE "low"

handle_analyze_request(input_data, state) ==
    LET confidence == GetOr(input_data, "confidence", JNum(DEFAULT_CONFIDENCE))
        document_type == Get(input_data, "document_type")
        \* DocumentType(x) raises ValueError, caught, for an unknown name
        s1 == IF Truthy(document_type) /\ document_type.t = "string"
                 /\ document_type.v # "UNKNOWN" /\ document_type.v \in DocumentTypes
              THEN SetDocumentType(state, document_type.v)
              ELSE state
        missing_info == Get(input_data, "missing_info")
        s2 == IF Truthy(missing_info)
              THEN [s1 EXCEPT !.missing_fields = missing_info.v]
              ELSE s1
        detected_info == Get(input_data, "detected_info")
        explicit_clarification == GetOr(input_data, "clarification_needed", JBool(FALSE))
    IN IF Truthy(detected_info) /\ ~IsObj(detected_info)
       THEN Raised(s2)  \* dict.update of a non-mapping
       ELSE IF ~IsNumber(confidence)
       THEN Raised(IF Truthy(detected_info)
                   THEN UpdateCollectedData(s2, detected_info.v) ELSE s2)
       ELSE
         LET s3 == IF Truthy(detected_info)
                   THEN UpdateCollectedData(s2, detected_info.v)
                   ELSE s2
             \* a or b: a when a is truthy, b otherwise
             needs_clarification ==
                 IF Truthy(explicit_clarification) THEN explicit_clarification
                 ELSE JBool(confidence.v < LOW_CONFIDENCE)
             confidence_level == ConfidenceLevel(confidence.v)
             guidance ==
                 IF confidence.v >= HIGH_CONFIDENCE
                 THEN "Proceed with collected information"
                 ELSE IF confidence.v >= LOW_CONFIDENCE
                 THEN "Consider asking for confirmation"
                 ELSE "Request clarification before proceeding"
         IN Returned(s3,
                [success |-> TRUE,
                 intent |-> Get(input_data, "intent"),
                 document_type |-> s3.document_type,
                 needs_clarification |-> needs_clarification,
                 confidence |-> confidence,
                 confidence_level |-> confidence_level,
                 guidance |-> guidance])

\* the name/type pair a party contributes to extracted
PartyFields(input_data, key) ==
    LET party == Get(input_data, key)
    IN IF ~Truthy(party) THEN EmptyDict
       ELSE DictUpdate(
              IF Truthy(Get(party.v, "name"))
              THEN [k \in {key \o "_name"} |-> party.v["name"]] ELSE EmptyDict,
              IF Truthy(Get(party.v, "type"))
              THEN [k \in {key \o "_type"} |-> party.v["type"]] ELSE EmptyDict)

\* f"{duration.get('value', '')} {duration.get('unit', '')}"
FormatDuration(duration) ==
    JText(FormatTokens(GetOr(duration, "value", JStr("")))
          \o <<" ">>
          \o FormatTokens(GetOr(duration, "unit", JStr(""))))

handle_extract_structured_data(input_data, state) ==
    LET keys == {"party_a", "party_b", "confidential_info", "duration"}
        bad == \E k \in keys :
                 Truthy(Get(input_data, k)) /\ ~IsObj(Get(input_data, k))
    IN IF bad THEN Raised(state)  \* .get on a value that is no mapping
       ELSE
         LET conf_info == Get(input_data, "confidential_info")
             duration == Get(input_data, "duration")
             e1 == DictUpdate(PartyFields(input_data, "party_a"),
                              PartyFields(input_data, "party_b"))
             e2 == IF Truthy(conf_info) /\ Truthy(Get(conf_info.v, "description"))
                   THEN DictSet(e1, "confidential_info_type", conf_info.v["description"])
                   ELSE e1
             e3 == IF Truthy(duration)
                   THEN DictSet(e2, "duration", FormatDuration(duration.v))
                   ELSE e2
             extracted ==
                   IF Truthy(Get(input_data, "governing_law"))
                   THEN DictSet(e3, "governing_law", input_data["governing_law"])
                   ELSE e3
             s1 == UpdateCollectedData(state, extracted)
         IN Returned(s1,
                [success |-> TRUE,
                 extracted_fields |-> DOMAIN extracted,
                 remaining_fields |-> s1.missing_fields])

\* mutant: the phase moves on is_complete alone
handle_validate_completenessIgnoresReady(input_data, state) ==
    LET is_complete == GetOr(input_data, "is_complete", JBool(FALSE))
        ready == GetOr(input_data, "ready_to_generate", JBool(FALSE))
        s1 == IF Truthy(is_complete)
              THEN IF state.phase = "intake"
                   THEN [state EXCEPT !.phase = "clarification"]
                   ELSE IF state.phase = "clarification"
                   THEN [state EXCEPT !.phase = "generation"]
                   ELSE state
              ELSE state
    IN Returned(s1,
           [success |-> TRUE,
            is_complete |-> is_complete,
            ready_to_generate |-> ready,
            current_phase |-> s1.phase,
            missing_required |-> GetOr(input_data, "missing_required", JList(<<>>)),
            recommendation |-> GetOr(input_data, "recommendation", JStr(""))])

handle_validate_completeness(input_data, state) ==
    LET is_complete == GetOr(input_data, "is_complete", JBool(FALSE))
        ready == GetOr(input_data, "ready_to_generate", JBool(FALSE))
        s1 == IF Truthy(is_complete) /\ Truthy(ready)
              THEN IF state.phase = "intake"
                   THEN [state EXCEPT !.phase = "clarification"]
                   ELSE IF state.phase = "clarification"
                   THEN [state EXCEPT !.phase = "generation"]
                   ELSE state
              ELSE state
    IN Returned(s1,
           [success |-> TRUE,
            is_complete |-> is_complete,
            ready_to_generate |-> ready,
            current_phase |-> s1.phase,
            missing_required |-> GetOr(input_data, "missing_required", JList(<<>>)),
            recommendation |-> GetOr(input_data, "recommendation", JStr(""))])

\* str.upper() of the section types
Upper(s) ==
    CASE s = "header" -> "HEADER"
      [] s = "parties" -> "PARTIES"
      [] s = "recitals" -> "RECITALS"
      [] s = "definitions" -> "DEFINITIONS"
      [] s = "confidential_info" -> "CONFIDENTIAL_INFO"
      [] s = "obligations" -> "OBLIGATIONS"
      [] s = "exclusions" -> "EXCLUSIONS"
      [] s = "term_termination" -> "TERM_TERMINATION"
      [] s = "remedies" -> "REMEDIES"
      [] s = "general_provisions" -> "GENERAL_PROVISIONS"
      [] s = "signatures" -> "SIGNATURES"
      [] OTHER -> s

\* the formatted_section f-strings
FormatSection(section_number, section_type, content) ==
    LET label == IF section_type.v = "" THEN <<>> ELSE <<Upper(section_type.v)>>
    IN IF Truthy(section_number)
       THEN <<"\n">> \o FormatTokens(section_number) \o <<". ">> \o label
            \o <<"\n\n">> \o FormatTokens(content) \o <<"\n">>
       ELSE <<"\n">> \o label \o <<"\n\n">> \o FormatTokens(content) \o <<"\n">>

\* mutant: the section replaces the document
handle_generate_document_sectionOverwrites(input_data, state) ==
    LET section_type == GetOr(input_data, "section_type", JStr(""))
        content == GetOr(input_data, "content", JText(<<>>))
        section_number == GetOr(input_data, "section_number", JStr(""))
    IN IF section_type.t # "string" THEN Raised(state)
       ELSE
         LET formatted_section == FormatSection(section_number, section_type, content)
             s1 == [state EXCEPT !.current_document = JText(formatted_section)]
         IN Returned(s1,
                [success |-> TRUE,
                 section_type |-> section_type,
                 section_added |-> TRUE])

handle_generate_document_section(input_data, state) ==
    LET section_type == GetOr(input_data, "section_type", JStr(""))
        content == GetOr(input_data, "content", JText(<<>>))
        section_number == GetOr(input_data, "section_number", JStr(""))
    IN IF section_type.t # "string" THEN Raised(state)  \* no .upper()
       ELSE
         LET formatted_section == FormatSection(section_number, section_type, content)
             s1 == IF Truthy(state.current_document)
                   THEN [state EXCEPT !.current_document =
                            JText(state.current_document.v \o formatted_section)]
                   ELSE [state EXCEPT !.current_document = JText(formatted_section)]
         IN Returned(s1,
                [success |-> TRUE,
                 section_type |-> section_type,
                 section_added |-> TRUE])

RECURSIVE StrReplace(_, _, _)

\* mutant: only the first occurrence is replaced
StrReplaceFirst(s, old, new) ==
    LET at == {i \in 1..(Len(s) - Len(old) + 1) :
                  SubSeq(s, i, i + Len(old) - 1) = old}
    IN IF at = {} THEN s
       ELSE LET i == CHOOSE j \in at : \A k \in at : j <= k
            IN SubSeq(s, 1, i - 1) \o new \o SubSeq(s, i + Len(old), Len(s))

\* str.replace(old, new) for a non-empty old: every non-overlapping
\* occurrence, scanning from the left
StrReplace(s, old, new) ==
    IF Len(s) < Len(old) THEN s
    ELSE IF SubSeq(s, 1, Len(old)) = old
    THEN new \o StrReplace(SubSeq(s, Len(old) + 1, Len(s)), old, new)
    ELSE <<Head(s)>> \o StrReplace(Tail(s), old, new)

\* mutant: the document is appended to the one already there
handle_generate_full_documentAppends(input_data, state, reflection) ==
    LET document_type == GetOr(input_data, "document_type", JStr("NDA"))
        title == GetOr(input_data, "title", JStr("Legal Document"))
        content == GetOr(input_data, "content", JText(<<>>))
        metadata == GetOr(input_data, "metadata", JObj(EmptyDict))
        use_reflection == GetOr(input_data, "use_reflection", JBool(FALSE))
        critical_sections ==
            IF document_type.t = "string" THEN CriticalSections(document_type.v)
            ELSE <<>>
        reflects == Truthy(use_reflection) /\ Truthy(content)
                    /\ critical_sections # <<>>
    IN IF reflects /\ reflection.raised THEN Raised(state)
       ELSE IF ~IsObj(metadata) THEN Raised([state EXCEPT !.current_document =
                    IF reflects THEN reflection.content ELSE content])
       ELSE
         LET final == IF reflects THEN reflection.content ELSE content
             s1 == [state EXCEPT
                      !.current_document =
                          IF Truthy(state.current_document)
                          THEN JText(state.current_document.v \o FormatTokens(final))
                          ELSE final,
                      !.document_metadata =
                          DictUpdate([title |-> title,
                                      document_type |-> document_type,
                                      used_reflection |-> use_reflection],
                                     metadata.v),
                      !.phase = "revision"]
         IN Returned(s1,
                [success |-> TRUE,
                 document_type |-> document_type,
                 title |-> title,
                 document_generated |-> TRUE,
                 used_reflection |-> use_reflection,
                 critical_sections |-> critical_sections,
                 message |-> "Document generated successfully."])

\* reflection is what ReflectionAgent().run(...) does when it is called:
\* [raised |-> TRUE] or [raised |-> FALSE, content |-> the text it returns]
handle_generate_full_document(input_data, state, reflection) ==
    LET document_type == GetOr(input_data, "document_type", JStr("NDA"))
        title == GetOr(input_data, "title", JStr("Legal Document"))
        content == GetOr(input_data, "content", JText(<<>>))
        metadata == GetOr(input_data, "metadata", JObj(EmptyDict))
        use_reflection == GetOr(input_data, "use_reflection", JBool(FALSE))
        critical_sections ==
            IF document_type.t = "string" THEN CriticalSections(document_type.v)
            ELSE <<>>
        reflects == Truthy(use_reflection) /\ Truthy(content)
                    /\ critical_sections # <<>>
    IN IF reflects /\ reflection.raised THEN Raised(state)
       ELSE IF ~IsObj(metadata) THEN Raised([state EXCEPT !.current_document =
                    IF reflects THEN reflection.content ELSE content])
       ELSE
         LET final == IF reflects THEN reflection.content ELSE content
             s1 == [state EXCEPT
                      !.current_document = final,
                      !.document_metadata =
                          DictUpdate([title |-> title,
                                      document_type |-> document_type,
                                      used_reflection |-> use_reflection],
                                     metadata.v),
                      !.phase = "revision"]
         IN Returned(s1,
                [success |-> TRUE,
                 document_type |-> document_type,
                 title |-> title,
                 document_generated |-> TRUE,
                 used_reflection |-> use_reflection,
                 critical_sections |-> critical_sections,
                 message |-> "Document generated successfully."])

\* mutant: the phase is set before the document is looked at
handle_apply_revisionSetsPhaseFirst(input_data, state) ==
    LET revision_type == GetOr(input_data, "revision_type", JStr("modify"))
        target_section == GetOr(input_data, "target_section", JStr(""))
        original_text == GetOr(input_data, "original_text", JText(<<>>))
        revised_text == GetOr(input_data, "revised_text", JText(<<>>))
        replaces == /\ revision_type \in {JStr("replace"), JStr("modify")}
                    /\ Truthy(original_text)
    IN IF ~Truthy(state.current_document)
       THEN Returned([state EXCEPT !.phase = "revision"],
                     [success |-> FALSE, error |-> "No document to revise"])
       ELSE IF replaces /\ ~(IsStr(original_text) /\ IsStr(revised_text))
       THEN Raised(state)  \* str.replace with an argument that is no str
       ELSE
         LET doc == state.current_document.v
             revised ==
                 IF replaces
                 THEN StrReplace(doc, FormatTokens(original_text),
                                 FormatTokens(revised_text))
                 ELSE IF revision_type = JStr("add")
                 THEN doc \o <<"\n">> \o FormatTokens(revised_text)
                 ELSE doc
             s1 == [state EXCEPT !.current_document = JText(revised),
                                 !.phase = "revision"]
         IN Returned(s1,
                [success |-> TRUE,
                 revision_type |-> revision_type,
                 target_section |-> target_section,
                 affected_sections |-> GetOr(input_data, "affected_sections", JList(<<>>))])

handle_apply_revision(input_data, state) ==
    LET revision_type == GetOr(input_data, "revision_type", JStr("modify"))
        target_section == GetOr(input_data, "target_section", JStr(""))
        original_text == GetOr(input_data, "original_text", JText(<<>>))
        revised_text == GetOr(input_data, "revised_text", JText(<<>>))
        replaces == /\ revision_type \in {JStr("replace"), JStr("modify")}
                    /\ Truthy(original_text)
    IN IF ~Truthy(state.current_document)
       THEN Returned(state, [success |-> FALSE, error |-> "No document to revise"])
       ELSE IF replaces /\ ~(IsStr(original_text) /\ IsStr(revised_text))
       THEN Raised(state)  \* str.replace with an argument that is no str
       ELSE
         LET doc == state.current_document.v
             revised ==
                 IF replaces
                 THEN StrReplace(doc, FormatTokens(original_text),
                                 FormatTokens(revised_text))
                 ELSE IF revision_type = JStr("add")
                 THEN doc \o <<"\n">> \o FormatTokens(revised_text)
                 ELSE doc
             s1 == [state EXCEPT !.current_document = JText(revised),
                                 !.phase = "revision"]
         IN Returned(s1,
                [success |-> TRUE,
                 revision_type |-> revision_type,
                 target_section |-> target_section,
                 affected_sections |-> GetOr(input_data, "affected_sections", JList(<<>>))])

\* handlers[tool_name](validated_input, state)
Dispatch(tool_name, validated_input, state, reflection) ==
    CASE tool_name = "analyze_request" -> handle_analyze_request(validated_input, state)
      [] tool_name = "extract_structured_data" ->
             handle_extract_structured_data(validated_input, state)
      [] tool_name = "validate_completeness" ->
             handle_validate_completeness(validated_input, state)
      [] tool_name = "generate_document_section" ->
             handle_generate_document_section(validated_input, state)
      [] tool_name = "generate_full_document" ->
             handle_generate_full_document(validated_input, state, reflection)
      [] tool_name = "apply_revision" -> handle_apply_revision(validated_input, state)

\* mutant: only ToolValidationError is caught, a handler's exception goes on
\* to the caller
handle_tool_callNoCatchAll(tool_name, tool_input, state, reflection) ==
    IF tool_name \notin KnownTools
    THEN [state |-> state,
          result |-> [error |-> "Unknown tool", name |-> tool_name,
                      recoverable |-> TRUE]]
    ELSE LET validated == validate_tool_input(tool_name, tool_input)
         IN IF ~validated.ok
            THEN [state |-> state,
                  result |-> [error |-> "Validation error", tool |-> tool_name,
                              recoverable |-> TRUE]]
            ELSE LET out == Dispatch(tool_name, validated.value, state, reflection)
                 IN IF out.raised
                    THEN [state |-> out.state, result |-> [propagated |-> TRUE]]
                    ELSE [state |-> out.state, result |-> out.result]

\* mutant: an unknown tool name is reported as a failure that is not recoverable
handle_tool_callUnknownFatal(tool_name, tool_input, state, reflection) ==
    IF tool_name \notin KnownTools
    THEN [state |-> state,
          result |-> [error |-> "Unknown tool", name |-> tool_name,
                      recoverable |-> FALSE]]
    ELSE LET validated == validate_tool_input(tool_name, tool_input)
         IN IF ~validated.ok
            THEN [state |-> state,
                  result |-> [error |-> "Validation error", tool |-> tool_name,
                              recoverable |-> TRUE]]
            ELSE LET out == Dispatch(tool_name, validated.value, state, reflection)
                 IN IF out.raised
                    THEN [state |-> out.state,
                          result |-> [error |-> "Exception", tool |-> tool_name,
                                      recoverable |-> FALSE]]
                    ELSE [state |-> out.state, result |-> out.result]

\* handle_tool_call: always returns, [state, result]
handle_tool_call(tool_name, tool_input, state, reflection) ==
    IF tool_name \notin KnownTools
    THEN [state |-> state,
          result |-> [error |-> "Unknown tool", name |-> tool_name,
                      recoverable |-> TRUE]]
    ELSE LET validated == validate_tool_input(tool_name, tool_input)
         IN IF ~validated.ok
            THEN [state |-> state,
                  result |-> [error |-> "Validation error", tool |-> tool_name,
                              recoverable |-> TRUE]]
            ELSE LET out == Dispatch(tool_name, validated.value, state, reflection)
                 IN IF out.raised
                    THEN [state |-> out.state,
                          result |-> [error |-> "Exception", tool |-> tool_name,
                                      recoverable |-> FALSE]]
                    ELSE [state |-> out.state, result |-> out.result]

(***************************************************************************)
(* The session: one ConversationState, and the last operation applied to   *)
(* it with the result it returned (last and result, history variables).    *)
(***************************************************************************)
VARIABLES phase, document_type, expertise, collected_data, missing_fields,
          current_document, document_metadata, last, result

(***************************************************************************)
(* The chat turn (ChatService): state.history, and the position of the     *)
(* turn in progress                                                        *)
(*   pc            "idle" (no turn), "loop" (head of the for loop),        *)
(*                 "choice" (a completion is being handled), "execute"     *)
(*                 (inside _execute_tool_calls)                            *)
(*   variant       "chat" or "chat_stream"                                 *)
(*   iteration     completion requests made in this turn                   *)
(*   system_prompt the local of that name                                  *)
(*   choice        response.choices[0] of the last request                 *)
(*   tool_index    the tool call the running for loop is at                *)
(*   response      what the turn returned (chat) or yielded as done        *)
(*                 (chat_stream), or that it raised                        *)
(* and four history variables: request (the last request sent), executed   *)
(* (ids of the tool calls run through the pipeline since the last          *)
(* request, in order), turn_start (len(history) when the turn began),      *)
(* turn_state (the conversation state when the turn began).                *)
(* The HTTP response of the request that carries the turn                  *)
(* (features/chat/routes.py):                                              *)
(*   sse           the SSE events written so far (the stream route)        *)
(*   http          "none", "open" (the route is at work), "closed" (the    *)
(*                 response is complete), "raised" (an exception left the  *)
(*                 route)                                                  *)
(***************************************************************************)
VARIABLES history, pc, variant, iteration, system_prompt, choice, tool_index,
          response, request, executed, turn_start, turn_state, sse, http

turnvars == <<history, pc, variant, iteration, system_prompt, choice,
              tool_index, response, request, executed, turn_start, turn_state,
              sse, http>>

(***************************************************************************)
(* A run of the reflection agent (ReflectionAgent.run / run_stream)        *)
(*   rpc                "idle" (no run), "generate" (about to request a    *)
(*                      generation), "reflect" (about to request a         *)
(*                      critique), "returned", "raised"                    *)
(*   rvariant           "run" or "run_stream"                              *)
(*   n_steps, step      the argument and the loop variable                 *)
(*   generation         the local of that name                             *)
(*   generation_history, reflection_history   the two windows              *)
(*   run_result         what run returned                                  *)
(*   events             what run_stream has yielded                        *)
(* and three history variables: requests (the completion requests made,    *)
(* with the messages sent), candidates and critiques (the texts the        *)
(* completions answered with, in order).                                   *)
(***************************************************************************)
VARIABLES rpc, rvariant, n_steps, step, generation, generation_history,
          reflection_history, run_result, events, requests, candidates,
          critiques

reflvars == <<rpc, rvariant, n_steps, step, generation, generation_history,
              reflection_history, run_result, events, requests, candidates,
              critiques>>

(***************************************************************************)
(* One FixedFirstChatHistory object (window), with two history variables:  *)
(* the list it was built from and the messages appended to it since.       *)
(***************************************************************************)
VARIABLES window, initial_messages, appended

windowvars == <<window, initial_messages, appended>>

(***************************************************************************)
(* One generate_section call (prompts/patterns/reflection.py):             *)
(*   section          the call's section_type, document_type and config,   *)
(*                    and where the call is ("reflection", "direct",       *)
(*                    "returned", "raised")                                *)
(*   section_result   what generate_section returned                       *)
(*   direct_requests  the llm.chat requests of the direct path             *)
(***************************************************************************)
VARIABLES section, section_result, direct_requests

sectionvars == <<section, section_result, direct_requests>>

(***************************************************************************)
(* features/chat/routes.py: the session table and the requests in flight.  *)
(*   sessions   _sessions: for each session id the ChatService stored      *)
(*              under it (its index in objects), 0 when the id is absent   *)
(*   lock       _sessions_lock: the request that holds it, 0 when free     *)
(*   reqs       the requests (each on a thread of its own): route,         *)
(*              session id, position, and the service local                *)
(*   objects    the ChatService objects built so far, each with its        *)
(*              ConversationState: phase, current_document, and the        *)
(*              references of its history list and collected_data dict     *)
(*   cells      the list and dict objects the references name; an entry    *)
(*              records the request that wrote it                          *)
(*   epoch      for each session id, the resets carried out so far         *)
(***************************************************************************)
VARIABLES sessions, lock, reqs, objects, cells, epoch

sessionvars == <<sessions, lock, reqs, objects, cells, epoch>>

\* the variables of the reflection agent, of the window, of generate_section
\* and of the session table
agentvars == <<reflvars, windowvars, sectionvars, sessionvars>>

stvars == <<phase, document_type, expertise, collected_data, missing_fields,
            current_document, document_metadata>>

\* the ConversationState object as one value
State ==
    [phase |-> phase,
     document_type |-> document_type,
     expertise |-> expertise,
     collected_data |-> collected_data,
     missing_fields |-> missing_fields,
     current_document |-> current_document,
     document_metadata |-> document_metadata]

StateBecomes(st) ==
    /\ phase' = st.phase
    /\ document_type' = st.document_type
    /\ expertise' = st.expertise
    /\ collected_data' = st.collected_data
    /\ missing_fields' = st.missing_fields
    /\ current_document' = st.current_document
    /\ document_metadata' = st.document_metadata

(***************************************************************************)
(* Bounds and the tool inputs the model draws from                         *)
(***************************************************************************)
MaxDocLen == 5

DocLen(st) == IF st.current_document.t = "text" THEN Len(st.current_document.v) ELSE 0

Dict1(k, x) == [kk \in {k} |-> x]

\* optional key: a set of dicts holding the key with each value, or not at all
Opt(k, values) == {EmptyDict} \cup {Dict1(k, x) : x \in values}

\* every union of one dict from each of two sets
Cross(A, B) == {DictUpdate(a, b) : a \in A, b \in B}

DetectedInfos ==
    {JObj(Dict1("party_a_name", JStr("Acme Inc"))),
     JObj([duration |-> JStr("2 years"), governing_law |-> JStr("Texas")]),
     JStr("Acme Inc")}

MissingInfos ==
    {JList(<<>>),
     JList(<<"party_a_name", "duration", "party_a_name">>)}

AnalyzeInputs ==
    Cross(Cross(Cross(Opt("document_type",
                          {JStr(x) : x \in AnalyzeDocTypes \cup {"WILL"}}),
                      Opt("missing_info", MissingInfos)),
                Opt("detected_info", DetectedInfos)),
          {Dict1("intent", JStr("create_document"))})
    \cup {EmptyDict,
          [intent |-> JStr("bogus"), document_type |-> JStr("LEASE")],
          [intent |-> JStr("provide_info"), confidence |-> JNum(30)],
          [intent |-> JStr("provide_info"), confidence |-> JNum(90),
           clarification_needed |-> JBool(TRUE)],
          [document_type |-> JStr("SERVICE"), confidence |-> JNum(150)],
          [intent |-> JStr("unclear"), confidence |-> JStr("high")]}

ExtractInputs ==
    {EmptyDict,
     Dict1("party_a", JObj([name |-> JStr("Acme"), type |-> JStr("company")])),
     Dict1("party_a", JObj(EmptyDict)),
     Dict1("party_b", JObj(Dict1("name", JStr("Bob")))),
     [confidential_info |-> JObj(Dict1("description", JStr("trade secrets"))),
      duration |-> JObj([value |-> JNum(2), unit |-> JStr("years")])],
     Dict1("duration", JObj(Dict1("value", JNum(2)))),
     Dict1("governing_law", JStr("Texas")),
     Dict1("governing_law", JNum(5)),
     Dict1("party_b", JStr("Bob"))}

ValidateInputs ==
    Cross(Opt("is_complete", {JBool(TRUE), JBool(FALSE), JStr("yes")}),
          Opt("ready_to_generate", {JBool(TRUE), JBool(FALSE), JStr("yes")}))
    \cup {[is_complete |-> JBool(TRUE), ready_to_generate |-> JBool(TRUE),
           missing_required |-> JList(<<"salary">>),
           recommendation |-> JStr("generate")]}

SectionInputs ==
    {[section_type |-> JStr("header"), content |-> JText(<<"a">>)],
     [section_type |-> JStr("parties"), content |-> JText(<<"a">>),
      section_number |-> JStr("1")],
     Dict1("section_type", JStr("header")),
     Dict1("content", JText(<<"a">>)),
     [section_type |-> JStr("preamble"), content |-> JText(<<"a">>)]}

FullDocumentInputs ==
    {[document_type |-> JStr("NDA"), title |-> JStr("NDA"),
      content |-> JText(<<"a", "b", "a">>)],
     [document_type |-> JStr("LEASE"), title |-> JStr("Lease"),
      content |-> JText(<<"a", "b">>), use_reflection |-> JBool(TRUE),
      metadata |-> JObj(Dict1("party_a", JStr("Acme")))],
     [document_type |-> JStr("NDA"), title |-> JStr("NDA"),
      content |-> JText(<<>>), use_reflection |-> JBool(TRUE)],
     [document_type |-> JStr("WILL"), title |-> JStr("Will"),
      content |-> JText(<<"a">>)],
     EmptyDict}

\* what a run of the reflection agent can come to
ReflectionOutcomes ==
    {[raised |-> TRUE, content |-> JText(<<>>)],
     [raised |-> FALSE, content |-> JText(<<"c">>)],
     [raised |-> FALSE, content |-> JText(<<>>)]}

NoReflection == [raised |-> TRUE, content |-> JText(<<>>)]

RevisionInputs ==
    {[target_section |-> JStr("term"), revision_type |-> JStr("replace"),
      original_text |-> JText(<<"a">>), revised_text |-> JText(<<"b">>)],
     [target_section |-> JStr("term"),
      original_text |-> JText(<<"b">>), revised_text |-> JText(<<"b", "b">>)],
     [target_section |-> JStr("term"), revision_type |-> JStr("add"),
      revised_text |-> JText(<<"c">>)],
     [target_section |-> JStr("term"), revision_type |-> JStr("delete"),
      revised_text |-> JText(<<>>)],
     [target_section |-> JStr("term"), revision_type |-> JStr("replace"),
      original_text |-> JNum(2), revised_text |-> JText(<<"b">>)],
     [revision_type |-> JStr("rewrite"), target_section |-> JStr("term"),
      revised_text |-> JText(<<"b">>)],
     Dict1("revised_text", JText(<<"b">>))}

UnknownTools == {"delete_document", ""}

\* the inputs drawn for a tool
InputsOf(tool_name) ==
    CASE tool_name = "analyze_request" -> AnalyzeInputs
      [] tool_name = "extract_structured_data" -> ExtractInputs
      [] tool_name = "validate_completeness" -> ValidateInputs
      [] tool_name = "generate_document_section" -> SectionInputs
      [] tool_name = "generate_full_document" -> FullDocumentInputs
      [] tool_name = "apply_revision" -> RevisionInputs
      [] OTHER -> {EmptyDict, Dict1("intent", JStr("unclear"))}

ReflectionsOf(tool_name) ==
    IF tool_name = "generate_full_document" THEN ReflectionOutcomes
    ELSE {NoReflection}

(***************************************************************************)
(* Spec: any sequence of tool calls on one ConversationState               *)
(***************************************************************************)
StateIs(st) ==
    /\ phase = st.phase
    /\ document_type = st.document_type
    /\ expertise = st.expertise
    /\ collected_data = st.collected_data
    /\ missing_fields = st.missing_fields
    /\ current_document = st.current_document
    /\ document_metadata = st.document_metadata

(***************************************************************************)
(* The calls that drive the session in Spec: a few of each tool's inputs.  *)
(* The claims quantify over the full input sets in every state reached.    *)
(***************************************************************************)
AnalyzeCalls ==
    {[intent |-> JStr("create_document"), document_type |-> JStr(x)] :
        x \in DocumentTypes}
    \cup {[intent |-> JStr("provide_info"),
           detected_info |-> JObj(Dict1("party_a_name", JStr("Acme Inc")))],
          [intent |-> JStr("create_document"), document_type |-> JStr("SERVICE"),
           detected_info |-> JObj([duration |-> JStr("2 years"),
                                   governing_law |-> JStr("Texas")])],
          [intent |-> JStr("provide_info"),
           missing_info |-> JList(<<"party_a_name", "duration", "party_a_name">>)],
          EmptyDict,
          [intent |-> JStr("create_document"), document_type |-> JStr("WILL")],
          [intent |-> JStr("create_document"), document_type |-> JStr("LEASE"),
           detected_info |-> JStr("Acme Inc")]}

ExtractCalls ==
    {EmptyDict,
     Dict1("party_a", JObj(Dict1("name", JStr("Acme")))),
     Dict1("governing_law", JNum(5))}

ValidateCalls ==
    {[is_complete |-> JBool(TRUE), ready_to_generate |-> JBool(TRUE)],
     [is_complete |-> JBool(TRUE), ready_to_generate |-> JBool(FALSE)],
     Dict1("ready_to_generate", JBool(TRUE))}

SectionCalls ==
    {[section_type |-> JStr("header"), content |-> JText(<<"a">>)],
     Dict1("content", JText(<<"a">>))}

FullDocumentCalls ==
    {[document_type |-> JStr("NDA"), title |-> JStr("NDA"),
      content |-> JText(<<"a", "b", "a">>)],
     [document_type |-> JStr("NDA"), title |-> JStr("NDA"),
      content |-> JText(<<"a">>), use_reflection |-> JBool(TRUE)],
     EmptyDict}

RevisionCalls ==
    {[target_section |-> JStr("term"), revision_type |-> JStr("replace"),
      original_text |-> JText(<<"a">>), revised_text |-> JText(<<"b">>)],
     [target_section |-> JStr("term"), revision_type |-> JStr("add"),
      revised_text |-> JText(<<"c">>)],
     Dict1("revised_text", JText(<<"b">>))}

CallsOf(tool_name) ==
    CASE tool_name = "analyze_request" -> AnalyzeCalls
      [] tool_name = "extract_structured_data" -> ExtractCalls
      [] tool_name = "validate_completeness" -> ValidateCalls
      [] tool_name = "generate_document_section" -> SectionCalls
      [] tool_name = "generate_full_document" -> FullDocumentCalls
      [] tool_name = "apply_revision" -> RevisionCalls
      [] OTHER -> {EmptyDict}

NoChoice == [finish_reason |-> "none", content |-> JNone, tool_calls |-> <<>>]
NoPrompt ==
    [phase |-> "none", document_type |-> "none", context |-> ToContext(InitialState)]
NoRequest == [messages |-> <<>>, system |-> NoPrompt]
NoResponse == [kind |-> "none", text |-> ""]

\* no tool call was made yet, or the last operation was not a tool call
NoResult == [none |-> TRUE]

(***************************************************************************)
(* prompts/patterns/reflection.py: the window                              *)
(***************************************************************************)
\* a chat message
Message(role, content) == [role |-> role, content |-> content]

\* FixedFirstChatHistory.__init__: the list, its cap and its first message
FixedFirstChatHistory(messages, total_length) ==
    [items |-> messages,
     total_length |-> total_length,
     first_message |-> IF messages # <<>> THEN messages[1] ELSE JNone]

\* self.pop(1)
Pop1(items) == <<items[1]>> \o SubSeq(items, 3, Len(items))

\* the while loop of append, where it ends
RECURSIVE TrimToLength(_, _)
TrimToLength(items, total_length) ==
    IF Len(items) > total_length /\ Len(items) > 1
    THEN TrimToLength(Pop1(items), total_length)
    ELSE items

\* the while loop of append never ends: one message is left, it is never
\* popped, and the list is still longer than total_length
AppendSpins(h) == h.total_length < 1

\* mutant: the oldest message is evicted, the first one included
appendEvictsOldest(h, message) ==
    LET all == h.items \o <<message>>
    IN [h EXCEPT !.items =
           IF Len(all) > h.total_length /\ Len(all) > 1
           THEN SubSeq(all, Len(all) - h.total_length + 1, Len(all))
           ELSE all]

\* FixedFirstChatHistory.append, when it ends
append(h, message) ==
    [h EXCEPT !.items = TrimToLength(h.items \o <<message>>, h.total_length)]

NoHistory == FixedFirstChatHistory(<<>>, 5)

NoRunResult == [none |-> TRUE]

\* no run of the reflection agent has begun
NoRun ==
    /\ rpc = "idle"
    /\ rvariant = "none"
    /\ n_steps = 0
    /\ step = 0
    /\ generation = <<>>
    /\ generation_history = NoHistory
    /\ reflection_history = NoHistory
    /\ run_result = NoRunResult
    /\ events = <<>>
    /\ requests = <<>>
    /\ candidates = <<>>
    /\ critiques = <<>>

\* no window has been built
NoWindow ==
    /\ window = NoHistory
    /\ initial_messages = <<>>
    /\ appended = <<>>

NoSection == [at |-> "none"]

NoSectionResult == [none |-> TRUE]

\* no generate_section call has begun
NoSectionCall ==
    /\ section = NoSection
    /\ section_result = NoSectionResult
    /\ direct_requests = <<>>

\* the requests and session ids of the session table
MaxRequests == 3

Requests == 1..MaxRequests

SessionIds == {"default", "s1"}

NotArrived == [pc |-> "new", route |-> "none", session_id |-> "none", service |-> 0,
               found |-> FALSE, epoch |-> 0]

\* the module is loaded: the table is empty, the lock free, no request arrived
NoSessions ==
    /\ sessions = [id \in SessionIds |-> 0]
    /\ lock = 0
    /\ reqs = [r \in Requests |-> NotArrived]
    /\ objects = <<>>
    /\ cells = <<>>
    /\ epoch = [id \in SessionIds |-> 0]

\* no turn has begun
NoTurn ==
    /\ history = <<>>
    /\ pc = "idle"
    /\ variant = "none"
    /\ iteration = 0
    /\ system_prompt = NoPrompt
    /\ choice = NoChoice
    /\ tool_index = 0
    /\ response = NoResponse
    /\ request = NoRequest
    /\ executed = <<>>
    /\ turn_start = 0
    /\ turn_state = InitialState
    /\ sse = <<>>
    /\ http = "none"

Init ==
    /\ StateIs(InitialState)
    /\ NoRun
    /\ NoWindow
    /\ NoSectionCall
    /\ NoSessions
    /\ last = "none"
    /\ result = NoResult
    /\ history = <<>>
    /\ pc = "idle"
    /\ variant = "none"
    /\ iteration = 0
    /\ system_prompt = NoPrompt
    /\ choice = NoChoice
    /\ tool_index = 0
    /\ response = NoResponse
    /\ request = NoRequest
    /\ executed = <<>>
    /\ turn_start = 0
    /\ turn_state = InitialState
    /\ sse = <<>>
    /\ http = "none"

\* one tool call through handle_tool_call
ExecuteTool(tool_name) ==
    \E tool_input \in CallsOf(tool_name), reflection \in ReflectionsOf(tool_name) :
        \E out \in {handle_tool_call(tool_name, tool_input, State, reflection)} :
           /\ DocLen(out.state) <= MaxDocLen
           /\ StateBecomes(out.state)
           /\ last' = tool_name
           /\ result' = out.result
           /\ UNCHANGED <<turnvars, agentvars>>

AnalyzeRequest == ExecuteTool("analyze_request")
ExtractStructuredData == ExecuteTool("extract_structured_data")
ValidateCompleteness == ExecuteTool("validate_completeness")
GenerateDocumentSection == ExecuteTool("generate_document_section")
GenerateFullDocument == ExecuteTool("generate_full_document")
ApplyRevision == ExecuteTool("apply_revision")
UnknownTool == \E tool_name \in UnknownTools : ExecuteTool(tool_name)

\* state.document_type = value
ChangeDocumentType ==
    \E value \in DocumentTypes :
        /\ StateBecomes(SetDocumentType(State, value))
        /\ last' = "document_type"
        /\ result' = NoResult
        /\ UNCHANGED <<turnvars, agentvars>>

\* state.advance_phase()
AdvancePhase ==
    /\ StateBecomes(AdvancePhaseOf(State))
    /\ last' = "advance_phase"
    /\ result' = NoResult
    /\ UNCHANGED <<turnvars, agentvars>>

vars == <<stvars, last, result, turnvars, agentvars>>

Next ==
    \/ AnalyzeRequest
    \/ ExtractStructuredData
    \/ ValidateCompleteness
    \/ GenerateDocumentSection
    \/ GenerateFullDocument
    \/ ApplyRevision
    \/ UnknownTool
    \/ ChangeDocumentType
    \/ AdvancePhase

Spec == Init /\ [][Next]_vars

TypeOK ==
    /\ phase \in Phases
    /\ document_type \in DocumentTypes
    /\ current_document.t \in {"null", "text"}

(***************************************************************************)
(* features/chat/service.py: one turn of ChatService.chat and of           *)
(* ChatService.chat_stream, a step per completion request and per tool     *)
(* call.                                                                   *)
(***************************************************************************)
MAX_TOOL_ITERATIONS == 5

MAX_ITERATIONS_TEXT == "[Max tool iterations reached]"

\* a new turn starts only while history is shorter than this
MaxHistory == 2

\* compose_prompt: the phase selects the phase template, the legal layer is
\* rendered with the document type, the phase template with the context
compose_prompt(phase_value, context) ==
    [phase |-> phase_value,
     document_type |-> context.document_type,
     context |-> context]

\* ConversationState.add_message
add_message(h, role, content) == Append(h, [role |-> role, content |-> content])

ToolCall(id, name, arguments) == [id |-> id, name |-> name, arguments |-> arguments]

\* the completions the transport answers with
ToolCompletions ==
    {[finish_reason |-> "tool_calls", content |-> JNone,
      tool_calls |->
        <<ToolCall("call_1", "validate_completeness",
                   RawJson(JObj([is_complete |-> JBool(TRUE),
                                 ready_to_generate |-> JBool(TRUE)]))),
          ToolCall("call_2", "generate_document_section",
                   RawJson(JObj([content |-> JText(<<"h">>)])))>>],
     [finish_reason |-> "tool_calls", content |-> JStr("working"),
      tool_calls |->
        <<ToolCall("call_1", "generate_document_section",
                   RawJson(JObj([section_type |-> JStr("header"),
                                 content |-> JText(<<"h">>)]))),
          ToolCall("call_2", "apply_revision",
                   RawFenced(JObj([target_section |-> JStr("header"),
                                   revision_type |-> JStr("add"),
                                   revised_text |-> JText(<<"r">>)]))),
          ToolCall("call_3", "apply_revision",
                   RawJson(JObj([original_text |-> JText(<<"h">>),
                                 revised_text |-> JText(<<"r">>)])))>>],
     [finish_reason |-> "tool_calls", content |-> JNone,
      tool_calls |->
        <<ToolCall("call_1", "analyze_request", RawText(<<"need", "nda">>)),
          ToolCall("call_2", "delete_document", RawJson(JObj(EmptyDict))),
          ToolCall("call_3", "generate_full_document",
                   RawText(<<"draft", "the", "nda">>))>>],
     [finish_reason |-> "tool_calls", content |-> JNone,
      tool_calls |->
        <<ToolCall("call_1", "extract_structured_data",
                   RawBraces([governing_law |-> JStr("Texas")])),
          ToolCall("call_2", "analyze_request", RawJson(JList(<<"NDA">>)))>>],
     [finish_reason |-> "tool_calls", content |-> JNone,
      tool_calls |->
        <<ToolCall("call_1", "generate_document_section", RawJson(JNum(5)))>>]}

FinalCompletions ==
    {[finish_reason |-> "stop", content |-> JStr("done"), tool_calls |-> <<>>],
     [finish_reason |-> "stop", content |-> JNone, tool_calls |-> <<>>],
     [finish_reason |-> "tool_calls", content |-> JStr("done"), tool_calls |-> <<>>],
     [finish_reason |-> "length", content |-> JStr("cut"),
      tool_calls |-> <<ToolCall("call_1", "validate_completeness",
                                RawJson(JObj(EmptyDict)))>>]}

Completions == ToolCompletions \cup FinalCompletions

UserMessages == {"I need an NDA"}

\* choice.finish_reason == "tool_calls" and choice.message.tool_calls
HasToolCalls(c) == c.finish_reason = "tool_calls" /\ c.tool_calls # <<>>

\* choice.message.content or default
ContentOr(c, default) == IF Truthy(c.content) THEN c.content.v ELSE default

\* the dict handle_tool_call is given; a value that is no dict reaches it
\* only under a name it does not know, and is not read
ToolInputDict(input) == IF IsObj(input) THEN input.v ELSE EmptyDict

\* tool_input = validate_and_parse_tool_call(name, arguments)
ParsedInputs(tool_call) ==
    {validate_and_parse_tool_call(tool_call.name, tool_call.arguments)}

\* tool_result = handle_tool_call(name, tool_input, self.state), with the
\* state it leaves, for each outcome of the reflection agent
ToolRuns(tool_call, tool_input) ==
    {handle_tool_call(tool_call.name, ToolInputDict(tool_input), State, reflection) :
        reflection \in ReflectionsOf(tool_call.name)}

\* sse_event(event_type, data), with the data the claims read
SseMetadata(status, phase_value) ==
    [type |-> "metadata", status |-> status, phase |-> phase_value]

SseFunctionCall(name) == [type |-> "function_call", name |-> name]

SseFunctionResult(name) == [type |-> "function_result", name |-> name]

SseDocumentUpdate(name, content) ==
    [type |-> "document_update", action |-> name, content |-> content]

SseMessage(content) == [type |-> "message", content |-> content]

SseDone(content) == [type |-> "done", response |-> content]

SseError(message) ==
    [type |-> "error", message |-> message, code |-> "INTERNAL_ERROR",
     recoverable |-> TRUE, suggestion |-> "Try again or reset the session"]

\* the tools after which chat_stream yields document_update
DocumentUpdateTools ==
    {"generate_document_section", "generate_full_document", "apply_revision"}

\* mutant: generate() has no except clause
StreamFailureEscapes(message) == [events |-> <<>>, http |-> "raised"]

\* generate(), except Exception: one error event, and the stream ends
StreamFailure(message) == [events |-> <<SseError(message)>>, http |-> "closed"]

\* an exception leaves service.chat or service.chat_stream: the chat route
\* lets it through, generate() of the stream route catches it
RouteFailure(message) ==
    IF variant = "chat_stream"
    THEN \E failure \in {StreamFailure(message)} :
            /\ sse' = sse \o failure.events
            /\ http' = failure.http
    ELSE /\ http' = "raised"
         /\ UNCHANGED sse

\* the turn came to its end: the stream route writes the closing metadata
\* and done events, the chat route answers with jsonify
RouteDone(content, chunks) ==
    /\ http' = "closed"
    /\ sse' = IF variant = "chat_stream"
              THEN sse \o chunks \o <<SseMetadata("completed", phase), SseDone(content)>>
              ELSE sse

\* chat and chat_stream up to the loop: the user message is appended and
\* the system prompt composed
StartTurn(v) ==
    \E user_message \in UserMessages :
        /\ pc = "idle"
        /\ Len(history) < MaxHistory
        /\ turn_start' = Len(history)
        /\ turn_state' = State
        /\ history' = add_message(history, "user", JStr(user_message))
        /\ system_prompt' = compose_prompt(phase, ToContext(State))
        /\ variant' = v
        /\ iteration' = 0
        /\ choice' = NoChoice
        /\ tool_index' = 0
        /\ response' = NoResponse
        /\ request' = NoRequest
        /\ executed' = <<>>
        /\ pc' = "loop"
        /\ http' = "open"
        /\ sse' = IF v = "chat_stream" THEN <<SseMetadata("started", phase)>> ELSE <<>>
        /\ UNCHANGED <<agentvars, stvars, last, result>>

Chat == StartTurn("chat")

ChatStream == StartTurn("chat_stream")

\* for _ in range(self.MAX_TOOL_ITERATIONS)
LoopContinuesPastCap(n) == n <= MAX_TOOL_ITERATIONS

LoopContinues(n) == n < MAX_TOOL_ITERATIONS

\* llm.chat(messages=self.state.history, system=system_prompt, tools=TOOLS)
\* returns a completion
LLMReturns ==
    /\ pc = "loop"
    /\ LoopContinues(iteration)
    /\ \E completion \in Completions : choice' = completion
    /\ request' = [messages |-> history, system |-> system_prompt]
    /\ iteration' = iteration + 1
    /\ executed' = <<>>
    /\ tool_index' = 1
    /\ pc' = "choice"
    /\ UNCHANGED <<agentvars, stvars, last, result, history, variant, system_prompt, response,
                   turn_start, turn_state, sse, http>>

\* llm.chat raises LLMError, which ends the turn
LLMFails ==
    /\ pc = "loop"
    /\ LoopContinues(iteration)
    /\ request' = [messages |-> history, system |-> system_prompt]
    /\ iteration' = iteration + 1
    /\ response' = [kind |-> "raised", text |-> "LLMError"]
    /\ pc' = "idle"
    /\ RouteFailure("LLMError")
    /\ UNCHANGED <<agentvars, stvars, last, result, history, variant, system_prompt, choice,
                   tool_index, executed, turn_start, turn_state>>

\* the completion is the final answer
FinalResponse ==
    /\ pc = "choice"
    /\ ~HasToolCalls(choice)
    /\ history' = add_message(history, "assistant", JStr(ContentOr(choice, "")))
    /\ response' = [kind |-> "final", text |-> ContentOr(choice, "")]
    /\ pc' = "idle"
    /\ RouteDone(ContentOr(choice, ""),
                 IF ContentOr(choice, "") # ""
                 THEN <<SseMessage(ContentOr(choice, ""))>> ELSE <<>>)
    /\ UNCHANGED <<agentvars, stvars, last, result, variant, iteration, system_prompt, choice,
                   tool_index, request, executed, turn_start, turn_state>>

\* chat_stream, the loop over choice.message.tool_calls that emits the
\* events: each call is parsed and handled
StreamToolCall ==
    /\ pc = "choice"
    /\ HasToolCalls(choice)
    /\ variant = "chat_stream"
    /\ tool_index <= Len(choice.tool_calls)
    /\ \E tool_call \in {choice.tool_calls[tool_index]} :
         \E parsed \in ParsedInputs(tool_call) :
            IF parsed.raised
            THEN /\ response' = [kind |-> "raised", text |-> tool_call.id]
                 /\ pc' = "idle"
                 /\ \E failure \in {StreamFailure(tool_call.id)} :
                       /\ sse' = sse \o <<SseFunctionCall(tool_call.name)>>
                                     \o failure.events
                       /\ http' = failure.http
                 /\ UNCHANGED <<stvars, last, result, tool_index, executed>>
            ELSE \E run \in ToolRuns(tool_call, parsed.input) :
                    /\ StateBecomes(run.state)
                    /\ last' = tool_call.name
                    /\ result' = run.result
                    /\ executed' = Append(executed, tool_call.id)
                    /\ tool_index' = tool_index + 1
                    /\ sse' = sse \o <<SseFunctionCall(tool_call.name),
                                        SseFunctionResult(tool_call.name)>>
                                  \o IF /\ tool_call.name \in DocumentUpdateTools
                                        /\ Truthy(run.state.current_document)
                                     THEN <<SseDocumentUpdate(
                                                tool_call.name,
                                                run.state.current_document)>>
                                     ELSE <<>>
                    /\ UNCHANGED <<response, pc, http>>
    /\ UNCHANGED <<agentvars, history, variant, iteration, system_prompt, choice, request,
                   turn_start, turn_state>>

\* the history entry for choice.message with its tool calls
ToolCallsMessage(c) ==
    [role |-> "assistant", content |-> c.content, tool_calls |-> c.tool_calls]

\* _execute_tool_calls begins: chat calls it with the completion, chat_stream
\* after its own loop over the tool calls
AppendToolCalls ==
    /\ pc = "choice"
    /\ HasToolCalls(choice)
    /\ variant = "chat" \/ tool_index > Len(choice.tool_calls)
    /\ history' = Append(history, ToolCallsMessage(choice))
    /\ tool_index' = 1
    /\ pc' = "execute"
    /\ UNCHANGED <<agentvars, stvars, last, result, variant, iteration, system_prompt, choice,
                   response, request, executed, turn_start, turn_state, sse, http>>

\* the history entry for a tool result (json.dumps of the dict)
ToolMessage(tool_call, tool_result) ==
    [role |-> "tool", tool_call_id |-> tool_call.id,
     content |-> [t |-> "json", v |-> tool_result]]

\* _execute_tool_calls, one pass of its loop: the call is parsed and
\* handled and its result appended to history
ExecuteToolCall ==
    /\ pc = "execute"
    /\ \E tool_call \in {choice.tool_calls[tool_index]} :
         \E parsed \in ParsedInputs(tool_call) :
            IF parsed.raised
            THEN /\ response' = [kind |-> "raised", text |-> tool_call.id]
                 /\ pc' = "idle"
                 /\ RouteFailure(tool_call.id)
                 /\ UNCHANGED <<stvars, last, result, tool_index, executed, history>>
            ELSE \E run \in ToolRuns(tool_call, parsed.input) :
                    /\ StateBecomes(run.state)
                    /\ last' = tool_call.name
                    /\ result' = run.result
                    /\ executed' = Append(executed, tool_call.id)
                    /\ history' = Append(history, ToolMessage(tool_call, run.result))
                    /\ tool_index' = tool_index + 1
                    /\ pc' = IF tool_index = Len(choice.tool_calls)
                             THEN "loop" ELSE "execute"
                    /\ UNCHANGED <<response, sse, http>>
    /\ UNCHANGED <<agentvars, variant, iteration, system_prompt, choice, request,
                   turn_start, turn_state>>

\* the loop is exhausted: chat returns the last content or the fixed text;
\* chat_stream yields done with full_response, still "", or the fixed text
MaxIterationsReached ==
    /\ pc = "loop"
    /\ ~LoopContinues(iteration)
    /\ response' =
         [kind |-> "max",
          text |-> IF variant = "chat"
                   THEN ContentOr(choice, MAX_ITERATIONS_TEXT)
                   ELSE MAX_ITERATIONS_TEXT]
    /\ pc' = "idle"
    /\ RouteDone(MAX_ITERATIONS_TEXT, <<>>)
    /\ UNCHANGED <<agentvars, stvars, last, result, history, variant, iteration, system_prompt,
                   choice, tool_index, request, executed, turn_start, turn_state>>

\* the steps of a turn in progress
TurnStep ==
    \/ LLMReturns
    \/ LLMFails
    \/ FinalResponse
    \/ StreamToolCall
    \/ AppendToolCalls
    \/ ExecuteToolCall
    \/ MaxIterationsReached

TurnNext ==
    \/ Chat
    \/ ChatStream
    \/ TurnStep

TurnSpec == Init /\ [][TurnNext]_vars


(***************************************************************************)
(* Claims checked under Spec                                               *)
(***************************************************************************)

\* C1 (as claimed): no field name is both a key of collected_data and a
\* member of missing_fields, in any state a sequence of tool calls reaches.
C1_NoFieldCollectedAndMissing ==
    \A field_name \in DOMAIN collected_data : field_name \notin Range(missing_fields)

\* the required fields of a type, in table order, without the collected ones
RequiredNotCollected(doctype, collected) ==
    LET NotCollected(field_name) == field_name \notin DOMAIN collected
    IN SelectSeq(RequiredFields(doctype), NotCollected)

\* C2: setting document_type to a different type leaves collected_data as it
\* is and makes missing_fields the new type's required fields, in table
\* order, minus the keys of collected_data.
C2_TypeChangeKeepsCollected ==
    [][(last' = "document_type" /\ document_type' # document_type)
          => /\ collected_data' = collected_data
             /\ missing_fields' = RequiredNotCollected(document_type', collected_data)]_vars

C2_Witness ==
    /\ last = "document_type"
    /\ document_type = "SERVICE"
    /\ {"duration", "party_a_name"} \subseteq DOMAIN collected_data
    /\ missing_fields = <<"service_provider_name", "client_name",
                          "scope_of_services", "payment_terms">>

\* C3: over any sequence of tool calls and advance_phase calls the index of
\* phase in Intake < Clarification < Generation < Revision never decreases.
C3_PhaseNeverDecreases ==
    [][PhaseIndex(phase') >= PhaseIndex(phase)]_vars

C3_Witness ==
    /\ phase = "revision"
    /\ last \in {"advance_phase", "validate_completeness"}

\* the phase one step after p, for the two phases validate_completeness leaves
NextPhase(p) ==
    IF p = "intake" THEN "clarification"
    ELSE IF p = "clarification" THEN "generation"
    ELSE p

CallIds(c) == [i \in DOMAIN c.tool_calls |-> c.tool_calls[i].id]

\* C5 (as claimed): when a round of tool calls is over, the calls run through
\* the pipeline since the completion arrived are the completion's tool
\* calls, each once and in the order returned, in chat and in chat_stream.
C5_EachToolCallRunOnceInOrder ==
    (pc = "loop" /\ iteration > 0) => executed = CallIds(choice)

\* the history entries of the turn in progress, or of the last turn
TurnEntries == SubSeq(history, turn_start + 1, Len(history))

IsToolCallsEntry(e) == e.role = "assistant" /\ "tool_calls" \in DOMAIN e

\* the rounds of tool execution begun in the turn
ToolRounds ==
    Cardinality({i \in DOMAIN TurnEntries : IsToolCallsEntry(TurnEntries[i])})

C6_AtMostFive ==
    /\ iteration <= 5
    /\ ToolRounds <= 5
    /\ response.kind = "max" =>
         /\ iteration = 5
         /\ ToolRounds = 5
         /\ HasToolCalls(choice)
         /\ executed # <<>>
         /\ \/ response.text = MAX_ITERATIONS_TEXT
            \/ IsStr(choice.content) /\ response.text = choice.content.v

\* the steps a running turn has left at most: 10 for every request not yet
\* made, and within a round one for each pass of a loop over the tool calls
\* still to come, one for the history entry, one for the return to the loop
StepsLeft ==
    LET n == Len(choice.tool_calls)
        base == 10 * (5 - iteration)
    IN CASE pc = "idle" -> 0
         [] pc = "loop" -> base + 1
         [] pc = "execute" -> base + n + 2 - tool_index
         [] pc = "choice" /\ variant = "chat_stream" /\ HasToolCalls(choice) ->
              base + 2 * n + 3 - tool_index
         [] OTHER -> base + n + 2

C6_Terminates ==
    /\ StepsLeft' >= 0
    /\ pc # "idle" => StepsLeft' < StepsLeft

C7_PromptComposedAtRequest ==
    [][iteration' = iteration + 1 =>
          /\ request'.system.phase = phase'
          /\ request'.system.document_type = document_type']_vars

\* from entry i on, e holds whole rounds (an assistant tool-call message,
\* then one tool entry per call, in call order, under the call's id) and
\* then, iff final, one assistant text message
RECURSIVE RoundsThenFinal(_, _, _)
RoundsThenFinal(e, i, final) ==
    IF i > Len(e) THEN ~final
    ELSE IF IsToolCallsEntry(e[i])
    THEN LET n == Len(e[i].tool_calls)
         IN /\ i + n <= Len(e)
            /\ \A k \in 1..n :
                 /\ e[i + k].role = "tool"
                 /\ e[i + k].tool_call_id = e[i].tool_calls[k].id
            /\ RoundsThenFinal(e, i + n + 1, final)
    ELSE /\ final
         /\ i = Len(e)
         /\ e[i].role = "assistant"

C8_TurnEntriesInOrder ==
    (pc = "idle" /\ response.kind # "none") =>
        /\ TurnEntries # <<>>
        /\ TurnEntries[1].role = "user"
        /\ RoundsThenFinal(TurnEntries, 2, response.kind = "final")

C8_AppendOnly ==
    /\ Len(history') >= Len(history)
    /\ SubSeq(history', 1, Len(history)) = history

\* C8 (as claimed): the entries a turn has appended to history when it is
\* over are the user message, then for each round with tool calls the
\* assistant tool-call message followed by one tool entry per call, in call
\* order and keyed by the call's id, then one assistant text message iff the
\* turn ended with a completion without tool calls; no step removes or
\* changes an entry of history.
C8_HistoryOfATurn ==
    /\ []C8_TurnEntriesInOrder
    /\ [][C8_AppendOnly]_vars

(***************************************************************************)
(* Claims checked under Spec, continued                                    *)
(***************************************************************************)

\* executing the call twice in succession leaves the state of executing it once
Idempotent(tool_name, tool_input, r1, r2) ==
    LET once == handle_tool_call(tool_name, tool_input, State, r1)
        twice == handle_tool_call(tool_name, tool_input, once.state, r2)
    IN twice.state = once.state

\* C9 (as claimed): for each of the six tools and every state, executing the
\* same tool call twice in succession leaves the state of executing it once.
C9_EveryToolIdempotent ==
    \A tool_name \in KnownTools :
        \A tool_input \in InputsOf(tool_name) :
            \A r1, r2 \in ReflectionsOf(tool_name) :
                Idempotent(tool_name, tool_input, r1, r2)

NoDuplicates(s) == \A i, j \in DOMAIN s : s[i] = s[j] => i = j

\* C9 (amended): executing the same call twice leaves the state of executing
\* it once for generate_full_document calls that do not ask for reflection,
\* and for analyze_request and extract_structured_data calls in a state
\* whose missing_fields names no field twice.
C9_IdempotentTools ==
    /\ \A tool_input \in FullDocumentInputs :
           ~Truthy(GetOr(tool_input, "use_reflection", JBool(FALSE))) =>
               \A r1, r2 \in ReflectionOutcomes :
                   Idempotent("generate_full_document", tool_input, r1, r2)
    /\ NoDuplicates(missing_fields) =>
           \A tool_name \in {"analyze_request", "extract_structured_data"} :
               \A tool_input \in InputsOf(tool_name) :
                   Idempotent(tool_name, tool_input, NoReflection, NoReflection)

C9_Witness ==
    /\ last = "analyze_request"
    /\ "party_a_name" \in DOMAIN collected_data
    /\ NoDuplicates(missing_fields)
    /\ current_document # JNone

\* C10: handle_tool_call with a name that is none of the six tools returns
\* an error result with recoverable = true and leaves the state unchanged.
C10_UnknownToolIsRecoverableNoOp ==
    \A tool_name \in UnknownTools :
        \A known \in KnownTools :
            \A tool_input \in InputsOf(known) :
                LET out == handle_tool_call(tool_name, tool_input, State, NoReflection)
                IN /\ out.state = State
                   /\ "error" \in DOMAIN out.result
                   /\ out.result.recoverable = TRUE

C10_Witness ==
    /\ last \in UnknownTools
    /\ collected_data # EmptyDict
    /\ phase # "intake"

\* the handler of the tool raises on the input, once validated, in this state
HandlerRaises(tool_name, tool_input, reflection) ==
    LET validated == validate_tool_input(tool_name, tool_input)
    IN /\ validated.ok
       /\ Dispatch(tool_name, validated.value, State, reflection).raised

\* C11: whenever a handler raises, handle_tool_call returns a result record
\* with error, the tool's name and recoverable = false; the exception does
\* not reach the caller.
C11_HandlerExceptionsAreCaught ==
    \A tool_name \in KnownTools :
        \A tool_input \in InputsOf(tool_name) :
            \A reflection \in ReflectionsOf(tool_name) :
                HandlerRaises(tool_name, tool_input, reflection) =>
                    LET out == handle_tool_call(tool_name, tool_input, State,
                                                reflection)
                    IN /\ "error" \in DOMAIN out.result
                       /\ "tool" \in DOMAIN out.result
                       /\ out.result.tool = tool_name
                       /\ out.result.recoverable = FALSE

C11_Witness ==
    /\ last \in KnownTools
    /\ "error" \in DOMAIN result
    /\ "tool" \in DOMAIN result
    /\ result.recoverable = FALSE

(***************************************************************************)
(* Claims about the parsing of raw arguments, checked under TurnSpec       *)
(***************************************************************************)

\* raw argument strings of every kind, for a tool: empty, free text, JSON
\* objects (the tool's inputs, valid or not), JSON in a code block or in
\* prose, and JSON that is no object
RawArguments(tool_name) ==
    {RawText(<<>>),
     RawText(<<"need", "nda">>),
     RawText(<<"missing:", "duration">>),
     RawJson(JNum(5)),
     RawJson(JStr("NDA")),
     RawJson(JBool(TRUE)),
     RawJson(JList(<<>>)),
     RawJson(JList(<<"content", "section_type">>)),
     RawFenced(JList(<<"NDA">>)),
     RawBraces(EmptyDict)}
    \cup {RawJson(JObj(d)) : d \in InputsOf(tool_name)}

AllToolNames == KnownTools \cup UnknownTools

\* C12 (as claimed): validate_and_parse_tool_call returns a mapping and does
\* not raise, for every tool name and every raw argument string, so no chat
\* turn is ended by the arguments of a tool call.
C12_ParseNeverRaises ==
    /\ \A tool_name \in AllToolNames :
           \A arguments \in RawArguments(tool_name) :
               LET parsed == validate_and_parse_tool_call(tool_name, arguments)
               IN ~parsed.raised /\ IsObj(parsed.input)
    /\ response.kind = "raised" => response.text = "LLMError"

\* the result handle_tool_call gives for ToolValidationError
IsValidationError(res) ==
    "error" \in DOMAIN res /\ res.error = "Validation error"

\* validation and recovery both fail on what the arguments parse to
BeyondRecovery(tool_name, arguments) ==
    LET json == safe_parse_json(arguments)
        parsed == IF json = JNone
                  THEN JObj(extract_from_freetext(arguments.words, tool_name))
                  ELSE json
    IN IF IsObj(parsed) THEN ~validate_tool_input(tool_name, parsed.v).ok
       ELSE NonDictValidation(tool_name, parsed) = "invalid"

\* C13 (as claimed): for each of the six tools the fallback constant passes
\* the tool's schema, and a call whose arguments fail validation and
\* recovery is dispatched to the handler with that constant: its result is
\* not a validation error.
C13_FallbackIsValid ==
    \A tool_name \in KnownTools :
        /\ SchemaValid(tool_name, get_minimal_valid_input(tool_name))
        /\ \A arguments \in RawArguments(tool_name) :
               BeyondRecovery(tool_name, arguments) =>
                   LET parsed == validate_and_parse_tool_call(tool_name, arguments)
                   IN \A reflection \in ReflectionsOf(tool_name) :
                        ~IsValidationError(
                            handle_tool_call(tool_name, ToolInputDict(parsed.input),
                                             State, reflection).result)

\* the three tools that write current_document
DocumentTools ==
    {"generate_document_section", "generate_full_document", "apply_revision"}

\* the state one tool call leaves when it is run as _execute_tool_calls and
\* chat_stream run it: parsed, then handled; a call whose parsing raises
\* has touched nothing
PipelineState(tool_name, arguments, reflection) ==
    LET parsed == validate_and_parse_tool_call(tool_name, arguments)
    IN IF parsed.raised THEN State
       ELSE handle_tool_call(tool_name, ToolInputDict(parsed.input), State,
                             reflection).state

\* the section the fallback of generate_document_section adds
PlaceholderSection ==
    <<"\n", "GENERAL_PROVISIONS", "\n\n", "[Content generation failed]", "\n">>

RevisionTokens == {"a", "b", "c"}

MaxGenerated == 3

\* the texts of at most n tokens
TextsUpTo(n) == UNION {[1..k -> RevisionTokens] : k \in 0..n}

\* the sessions a revision call can meet: no document (any phase), a
\* document set by generate_full_document (phase Revision), a section
\* appended by generate_document_section (any phase)
RevisionSessions ==
    {[InitialState EXCEPT !.phase = p] : p \in Phases}
    \cup {[InitialState EXCEPT !.phase = "revision", !.current_document = JText(t)] :
             t \in TextsUpTo(MaxGenerated)}
    \cup {[InitialState EXCEPT
              !.phase = p,
              !.current_document =
                  JText(FormatSection(JStr(""), JStr("header"), JText(<<w>>)))] :
             p \in Phases, w \in RevisionTokens}

Originals == {<<"a">>, <<"b">>, <<"a", "b">>, <<"a", "a">>}

Reviseds == {<<>>, <<"c">>, <<"b", "b">>, <<"c", "a">>}

\* revision calls that replace text
Replacements ==
    {[target_section |-> JStr("term"), revision_type |-> JStr(rt),
      original_text |-> JText(o), revised_text |-> JText(r)] :
        rt \in {"replace", "modify"}, o \in Originals, r \in Reviseds}

RevisionRequests == Replacements \cup RevisionInputs

RevisionInit ==
    /\ \E st \in RevisionSessions : StateIs(st)
    /\ last = "none"
    /\ result = NoResult
    /\ NoTurn
    /\ NoRun
    /\ NoWindow
    /\ NoSectionCall
    /\ NoSessions

ReviseDocument ==
    \E tool_input \in RevisionRequests :
        \E out \in {handle_tool_call("apply_revision", tool_input, State, NoReflection)} :
           /\ DocLen(out.state) <= MaxDocLen
           /\ StateBecomes(out.state)
           /\ last' = "apply_revision"
           /\ result' = out.result
           /\ UNCHANGED <<turnvars, agentvars>>

RevisionNext == ReviseDocument

RevisionSpec == RevisionInit /\ [][RevisionNext]_vars

\* C18: apply_revision on a session that has no document returns
\* success = false without raising and leaves every field of the state,
\* phase included, as it was.
C18_NoDocumentNoChange ==
    \A tool_input \in RevisionRequests :
        ~Truthy(current_document) =>
            \A out \in {handle_apply_revision(tool_input, State)} :
               /\ ~out.raised
               /\ out.result.success = FALSE
               /\ out.state = State

C18_Witness ==
    /\ last = "apply_revision"
    /\ result = [success |-> FALSE, error |-> "No document to revise"]
    /\ ~Truthy(current_document)
    /\ phase = "clarification"

\* sub occurs in s
Contains(s, sub) ==
    \E i \in 1..(Len(s) - Len(sub) + 1) : SubSeq(s, i, i + Len(sub) - 1) = sub

\* the replacing calls whose original_text occurs in the document
ReplacesHere(tool_input) ==
    /\ Truthy(current_document)
    /\ Contains(current_document.v, tool_input.original_text.v)

\* C19 (as claimed): a replace or modify call with a non-empty
\* original_text that occurs in the document leaves a document that
\* contains revised_text and no longer contains original_text, and phase
\* is Revision.
C19_ReplaceRemovesOriginal ==
    \A tool_input \in Replacements :
        ReplacesHere(tool_input) =>
            \A after \in {handle_tool_call("apply_revision", tool_input, State,
                                           NoReflection).state} :
               /\ Contains(after.current_document.v, tool_input.revised_text.v)
               /\ ~Contains(after.current_document.v, tool_input.original_text.v)
               /\ after.phase = "revision"

\* C19 (amended): such a call succeeds and leaves a document that contains
\* revised_text, with phase Revision; the document no longer contains
\* original_text when revised_text is non-empty and shares no character
\* with original_text.
C19_ReplaceInsertsRevised ==
    \A tool_input \in Replacements :
        ReplacesHere(tool_input) =>
            \A out \in {handle_tool_call("apply_revision", tool_input, State,
                                         NoReflection)} :
               LET o == tool_input.original_text.v
                   r == tool_input.revised_text.v
               IN /\ out.result.success = TRUE
                  /\ Contains(out.state.current_document.v, r)
                  /\ out.state.phase = "revision"
                  /\ (r # <<>> /\ Range(r) \cap Range(o) = {}) =>
                         ~Contains(out.state.current_document.v, o)

\* a replacement has turned the section of a session in phase Intake
\* into one that holds the revised text, and the phase into Revision
C19_Witness ==
    /\ last = "apply_revision"
    /\ "revision_type" \in DOMAIN result
    /\ result.revision_type = JStr("replace")
    /\ phase = "revision"
    /\ Truthy(current_document)
    /\ Contains(current_document.v, <<"HEADER", "\n\n", "c", "\n">>)

\* the generate_full_document inputs that supply a document
SuppliedDocuments ==
    {d \in FullDocumentInputs : {"document_type", "title", "content"} \subseteq DOMAIN d}
    \cup {[document_type |-> JStr("NDA"), title |-> JStr("NDA"),
           content |-> JText(<<"a">>),
           metadata |-> JObj(Dict1("title", JStr("Draft")))]}

\* C20 (as claimed): after a generate_full_document call run through the
\* pipeline, from any state, phase is Revision, current_document is the
\* content the call supplied or what the reflection agent made of it, and
\* document_metadata holds the title and the document type of the call.
C20_FullDocumentReplacesAll ==
    /\ \A arguments \in RawArguments("generate_full_document") :
           \A reflection \in ReflectionOutcomes :
               ~validate_and_parse_tool_call("generate_full_document", arguments).raised
                   => PipelineState("generate_full_document", arguments,
                                    reflection).phase = "revision"
    /\ \A d \in SuppliedDocuments : \A reflection \in ReflectionOutcomes :
           \A after \in {PipelineState("generate_full_document", RawJson(JObj(d)),
                                       reflection)} :
              /\ after.phase = "revision"
              /\ after.current_document \in {d.content, reflection.content}
              /\ {"title", "document_type"} \subseteq DOMAIN after.document_metadata
              /\ after.document_metadata.title = d.title
              /\ after.document_metadata.document_type = d.document_type

(***************************************************************************)
(* prompts/patterns/reflection.py: ReflectionAgent.run and run_stream,     *)
(* one step per completion request. Texts are sequences of words.          *)
(***************************************************************************)
GENERATION_SYSTEM_PROMPT == "generation system prompt"

REFLECTION_SYSTEM_PROMPT == "reflection system prompt"

MaxSteps == 3

UserRequests == {<<"improve", "this", "NDA">>}

GenerationPrompts == {<<"You are improving a NDA legal document.">>}

\* the content of the completions that answer a generation request
GenerationCompletions ==
    {JNone, JText(<<"draft">>), JText(<<"better", "draft">>)}

\* the content of the completions that answer a critique request
CritiqueCompletions ==
    {JNone, JText(<<"<OK>">>), JText(<<"fix", "clause", "2">>),
     JText(<<"fine", "<OK>">>)}

\* response.choices[0].message.content or ""
CompletionText(content) == IF Truthy(content) THEN content.v ELSE <<>>

\* "<OK>" in critique
Approves(critique) == "<OK>" \in Range(critique)

\* the two histories run and run_stream begin with
BeginRun(v, n, user_msg, generation_system_prompt) ==
    /\ rpc = "idle"
    /\ rpc' = "loop"
    /\ rvariant' = v
    /\ n_steps' = n
    /\ step' = 0
    /\ generation' = <<>>
    /\ generation_history' =
           FixedFirstChatHistory(
               <<Message("system", generation_system_prompt
                                   \o <<"\n\n", GENERATION_SYSTEM_PROMPT>>),
                 Message("user", user_msg)>>, 5)
    /\ reflection_history' =
           FixedFirstChatHistory(
               <<Message("system", <<"\n\n", REFLECTION_SYSTEM_PROMPT>>)>>, 5)
    /\ UNCHANGED <<run_result, events, requests, candidates, critiques>>

StartRun(v) ==
    \E n \in 0..MaxSteps, user_msg \in UserRequests,
       generation_system_prompt \in GenerationPrompts :
        /\ BeginRun(v, n, user_msg, generation_system_prompt)
        /\ UNCHANGED <<stvars, last, result, turnvars, windowvars, sectionvars, sessionvars>>

Run == StartRun("run")

RunStream == StartRun("run_stream")

\* mutant: the newest events come first
YieldNewestFirst(yielded) ==
    events' = IF rvariant = "run_stream" THEN yielded \o events ELSE events

\* run_stream yields the events, run yields nothing
Yield(yielded) ==
    events' = IF rvariant = "run_stream" THEN events \o yielded ELSE events

\* mutant: the loop runs once more than n_steps
LoopEndsLate == step > n_steps

\* for step in range(n_steps): the range is used up
LoopEnds == step >= n_steps

\* generation = self.generate(generation_history), appended to both histories
Generate ==
    /\ rpc = "loop"
    /\ ~LoopEnds
    /\ \E content \in GenerationCompletions :
         \E output \in {CompletionText(content)} :
           /\ generation' = output
           /\ requests' = Append(requests, [kind |-> "generate",
                                            messages |-> generation_history.items])
           /\ candidates' = Append(candidates, output)
           /\ generation_history' =
                  append(generation_history, Message("assistant", output))
           /\ reflection_history' =
                  append(reflection_history, Message("user", output))
           /\ Yield(<<[type |-> "step", step |-> step + 1, max_steps |-> n_steps],
                      [type |-> "generation", content |-> output]>>)
    /\ rpc' = "reflect"
    /\ UNCHANGED <<rvariant, n_steps, step, run_result, critiques>>
    /\ UNCHANGED <<stvars, last, result, turnvars, windowvars, sectionvars, sessionvars>>

\* critique = self.reflect(reflection_history); approved, or fed back
Reflect ==
    /\ rpc = "reflect"
    /\ \E content \in CritiqueCompletions :
         \E critique \in {CompletionText(content)} :
           /\ requests' = Append(requests, [kind |-> "reflect",
                                            messages |-> reflection_history.items])
           /\ critiques' = Append(critiques, critique)
           /\ IF Approves(critique)
              THEN /\ rpc' = "returned"
                   /\ run_result' =
                          IF rvariant = "run"
                          THEN [content |-> generation, iterations |-> step + 1,
                                approved |-> TRUE]
                          ELSE run_result
                   /\ Yield(<<[type |-> "reflection", content |-> critique],
                              [type |-> "complete", content |-> generation,
                               iterations |-> step + 1, approved |-> TRUE]>>)
                   /\ UNCHANGED <<step, generation_history, reflection_history>>
              ELSE /\ rpc' = "loop"
                   /\ step' = step + 1
                   /\ generation_history' =
                          append(generation_history, Message("user", critique))
                   /\ reflection_history' =
                          append(reflection_history, Message("assistant", critique))
                   /\ Yield(<<[type |-> "reflection", content |-> critique]>>)
                   /\ UNCHANGED run_result
    /\ UNCHANGED <<rvariant, n_steps, generation, candidates>>
    /\ UNCHANGED <<stvars, last, result, turnvars, windowvars, sectionvars, sessionvars>>

\* the loop is over and no critique approved
Exhausted ==
    /\ rpc = "loop"
    /\ LoopEnds
    /\ rpc' = "returned"
    /\ run_result' =
           IF rvariant = "run"
           THEN [content |-> generation, iterations |-> n_steps, approved |-> FALSE]
           ELSE run_result
    /\ Yield(<<[type |-> "complete", content |-> generation,
                iterations |-> n_steps, approved |-> FALSE]>>)
    /\ UNCHANGED <<rvariant, n_steps, step, generation, generation_history,
                   reflection_history, requests, candidates, critiques>>
    /\ UNCHANGED <<stvars, last, result, turnvars, windowvars, sectionvars, sessionvars>>

\* self.client.chat.completions.create raises: the run ends with it
CompletionFails ==
    /\ \/ rpc = "loop" /\ ~LoopEnds
       \/ rpc = "reflect"
    /\ rpc' = "raised"
    /\ requests' =
           Append(requests,
                  IF rpc = "loop"
                  THEN [kind |-> "generate", messages |-> generation_history.items]
                  ELSE [kind |-> "reflect", messages |-> reflection_history.items])
    /\ Yield(IF rpc = "loop"
             THEN <<[type |-> "step", step |-> step + 1, max_steps |-> n_steps]>>
             ELSE <<>>)
    /\ UNCHANGED <<rvariant, n_steps, step, generation, generation_history,
                   reflection_history, run_result, candidates, critiques>>
    /\ UNCHANGED <<stvars, last, result, turnvars, windowvars, sectionvars, sessionvars>>

ReflectionNext ==
    \/ Run
    \/ RunStream
    \/ Generate
    \/ Reflect
    \/ Exhausted
    \/ CompletionFails

ReflectionSpec == Init /\ [][ReflectionNext]_vars

(***************************************************************************)
(* Claims about the reflection agent, checked under ReflectionSpec         *)
(***************************************************************************)
RequestsOf(kind) == Cardinality({i \in DOMAIN requests : requests[i].kind = kind})

C15_AtMostK ==
    rvariant = "run" =>
        /\ RequestsOf("generate") <= n_steps
        /\ RequestsOf("reflect") <= n_steps

C15_Result ==
    (rvariant = "run" /\ rpc = "returned") =>
        LET approving == {i \in DOMAIN critiques : Approves(critiques[i])}
        IN IF approving # {}
           THEN LET i == CHOOSE j \in approving : \A m \in approving : j <= m
                IN /\ i <= n_steps
                   /\ run_result = [content |-> candidates[i], iterations |-> i,
                                    approved |-> TRUE]
           ELSE /\ Len(candidates) = n_steps
                /\ run_result =
                       [content |-> IF candidates = <<>> THEN <<>>
                                    ELSE candidates[Len(candidates)],
                        iterations |-> n_steps, approved |-> FALSE]

\* the requests a run can still make
RunStepsLeft ==
    CASE rpc = "loop" -> 2 * (n_steps - step) + 1
      [] rpc = "reflect" -> 2 * (n_steps - step)
      [] OTHER -> 0

C15_RunEnds ==
    /\ RunStepsLeft' >= 0
    /\ rpc \in {"loop", "reflect"} => RunStepsLeft' < RunStepsLeft

\* C15: run with n_steps = k makes at most k generation requests and at
\* most k critique requests, every step of a run lowers a bound on the
\* steps it has left, and when it returns: if the critique of iteration i
\* is the first approving one the result is approved = true, iterations = i,
\* content = the candidate of iteration i; if none approves it is
\* approved = false, iterations = k, content = the last candidate.
C15_RunReturnsWithinK ==
    /\ [](C15_AtMostK /\ C15_Result)
    /\ [][C15_RunEnds]_vars

C15_Witness ==
    /\ rvariant = "run"
    /\ rpc = "returned"
    /\ n_steps = 3
    /\ run_result.approved
    /\ run_result.iterations = 2
    /\ run_result.content = <<"better", "draft">>
    /\ candidates[1] = <<"draft">>

\* how a finished run ended: what run returned, or the complete event of
\* run_stream
Outcome == IF rvariant = "run" THEN run_result ELSE events[Len(events)]

\* C16 (as claimed): a run ends approved at an iteration if and only if the
\* critique of that iteration is exactly the sentinel <OK>.
C16_ApprovedIffExactSentinel ==
    \A i \in DOMAIN critiques :
        (rpc = "returned" /\ Outcome.approved /\ Outcome.iterations = i)
            <=> critiques[i] = <<"<OK>">>

(***************************************************************************)
(* FixedFirstChatHistory: WindowSpec builds one window and appends to it   *)
(***************************************************************************)
MaxCap == 5

MaxAppends == 10

InitialLists ==
    {<<>>,
     <<Message("system", <<"s">>)>>,
     <<Message("system", <<"s">>), Message("user", <<"u">>)>>,
     <<Message("system", <<"s">>), Message("user", <<"u">>),
       Message("assistant", <<"v">>)>>}

AppendedMessages == {Message("user", <<"x">>), Message("assistant", <<"y">>)}

\* FixedFirstChatHistory(initial_messages, total_length)
NewWindow ==
    /\ window = NoHistory
    /\ appended = <<>>
    /\ \E messages \in InitialLists, total_length \in 0..MaxCap :
          /\ window' = FixedFirstChatHistory(messages, total_length)
          /\ initial_messages' = messages
    /\ UNCHANGED appended
    /\ UNCHANGED <<stvars, last, result, turnvars, reflvars, sectionvars, sessionvars>>

\* window.append(message), when the call returns
AppendMessage ==
    /\ Len(appended) < MaxAppends
    /\ ~AppendSpins(window)
    /\ \E message \in AppendedMessages :
          /\ window' = append(window, message)
          /\ appended' = Append(appended, message)
    /\ UNCHANGED initial_messages
    /\ UNCHANGED <<stvars, last, result, turnvars, reflvars, sectionvars, sessionvars>>

WindowNext ==
    \/ NewWindow
    \/ AppendMessage

WindowSpec == Init /\ [][WindowNext]_vars

Min(a, b) == IF a <= b THEN a ELSE b

\* C17: for a window built from a non-empty list with cap N >= 2, after
\* every append the length is at most N, element 0 is the first message of
\* the initial list, and the other elements are the most recent messages in
\* their order (the initial messages after the first being the oldest);
\* after 10 appends to a window of cap 5 they are the last 4 appended.
C17_WindowKeepsFirstAndRecent ==
    (initial_messages # <<>> /\ window.total_length >= 2 /\ appended # <<>>) =>
        LET items == window.items
            rest == Tail(initial_messages) \o appended
            kept == Len(items) - 1
        IN /\ Len(items) <= window.total_length
           /\ Len(items) = Min(window.total_length, 1 + Len(rest))
           /\ items[1] = initial_messages[1]
           /\ Tail(items) = SubSeq(rest, Len(rest) - kept + 1, Len(rest))
           /\ (window.total_length = 5 /\ Len(appended) = 10) =>
                  /\ Len(items) = 5
                  /\ Tail(items) = SubSeq(appended, 7, 10)

C17_Witness ==
    /\ Len(initial_messages) = 2
    /\ window.total_length = 5
    /\ Len(appended) = 10
    /\ window.items[1] = Message("system", <<"s">>)
    /\ window.items[5] = appended[10]

(***************************************************************************)
(* analyze_request: AnalyzeSpec runs analyze_request calls through the     *)
(* pipeline (validate_and_parse_tool_call, then handle_tool_call) on one   *)
(* session. Confidence is in hundredths.                                   *)
(***************************************************************************)
Confidences ==
    {JNum(0), JNum(39), JNum(40), JNum(41), JNum(79), JNum(80), JNum(100),
     JNum(150), JNum(0 - 10), JStr("high"), JBool(TRUE)}

Clarifications == {JBool(TRUE), JBool(FALSE), JStr("yes"), JStr("")}

DetectedMappings ==
    {JObj(Dict1("party_a_name", JStr("Acme Inc"))),
     JObj(Dict1("party_a_name", JStr("Beta LLC"))),
     JObj([duration |-> JStr("2 years"), governing_law |-> JStr("Texas")]),
     JObj(EmptyDict)}

\* analyze_request inputs: every confidence with every clarification flag
\* and intent, every document type with every detected_info, and a call
\* that supplies missing_info
AnalyzeRequests ==
    Cross(Cross(Opt("confidence", Confidences),
                Opt("clarification_needed", Clarifications)),
          Opt("intent", {JStr("create_document"), JStr("bogus")}))
    \cup Cross(Cross(Opt("document_type",
                         {JStr("LEASE"), JStr("UNKNOWN"), JStr("WILL"), JNum(5)}),
                     Opt("detected_info", DetectedMappings)),
               Cross(Opt("intent", {JStr("provide_info")}),
                     Opt("confidence", {JNum(90), JStr("high")})))
    \cup {[intent |-> JStr("provide_info"),
           missing_info |-> JList(<<"party_a_name", "duration", "party_a_name">>)]}

\* the argument strings that carry an input
Encodings(d) == {RawJson(JObj(d)), RawFenced(JObj(d))}

AnalyzeThroughPipeline ==
    \E d \in AnalyzeRequests : \E arguments \in Encodings(d) :
        \E parsed \in {validate_and_parse_tool_call("analyze_request", arguments)} :
            \E out \in {handle_tool_call("analyze_request",
                                         ToolInputDict(parsed.input), State,
                                         NoReflection)} :
               /\ ~parsed.raised
               /\ StateBecomes(out.state)
               /\ last' = "analyze_request"
               /\ result' = out.result
               /\ UNCHANGED <<turnvars, agentvars>>

AnalyzeNext == AnalyzeThroughPipeline

AnalyzeSpec == Init /\ [][AnalyzeNext]_vars

\* C21: for an analyze_request call that is handled, with the confidence
\* the handler reports: needs_clarification is true exactly when
\* clarification_needed is true or confidence < 0.4; confidence_level is
\* high when confidence >= 0.8, low when confidence < 0.4, medium
\* otherwise; so confidence_level = low implies needs_clarification. A
\* valid confidence of the call is the one reported.
C21_ClarificationAndLevel ==
    \A d \in AnalyzeRequests :
        \A out \in {handle_tool_call("analyze_request", d, State, NoReflection)} :
            "success" \in DOMAIN out.result =>
                LET c == out.result.confidence.v
                    level == out.result.confidence_level
                    needs == Truthy(out.result.needs_clarification)
                IN /\ needs <=> (Truthy(Get(d, "clarification_needed")) \/ c < 40)
                   /\ level = (IF c >= 80 THEN "high"
                               ELSE IF c < 40 THEN "low" ELSE "medium")
                   /\ level = "low" => needs
                   /\ ("confidence" \in DOMAIN d /\ IsConfidence(d["confidence"]))
                          => out.result.confidence = d["confidence"]

\* a call of confidence 0.4 exactly was reported medium, with no
\* clarification needed
C21_Witness ==
    /\ last = "analyze_request"
    /\ "confidence_level" \in DOMAIN result
    /\ result.confidence = JNum(40)
    /\ result.confidence_level = "medium"
    /\ result.needs_clarification = JBool(FALSE)

\* the calls that carry a detected_info mapping
CarriesDetectedInfo(d) ==
    "detected_info" \in DOMAIN d /\ IsObj(d["detected_info"])

\* C22 (as claimed): after the pipeline ran an analyze_request call that
\* carries a detected_info mapping, every key of detected_info is in
\* collected_data with the value supplied, whatever else the call holds.
C22_DetectedInfoAlwaysMerged ==
    \A d \in AnalyzeRequests : \A arguments \in Encodings(d) :
        CarriesDetectedInfo(d) =>
            \A after \in {PipelineState("analyze_request", arguments, NoReflection)} :
                \A key \in DOMAIN d["detected_info"].v :
                    /\ key \in DOMAIN after.collected_data
                    /\ after.collected_data[key] = d["detected_info"].v[key]

\* C22 (amended): that holds when the document_type of the call is absent
\* or one of NDA, EMPLOYMENT, SERVICE, LEASE, UNKNOWN; with any other
\* document_type the call falls back to the minimal input and the state,
\* collected_data included, is unchanged.
C22_DetectedInfoMergedWhenTypeValid ==
    \A d \in AnalyzeRequests : \A arguments \in Encodings(d) :
        CarriesDetectedInfo(d) =>
            \A after \in {PipelineState("analyze_request", arguments, NoReflection)} :
                IF "document_type" \in DOMAIN d => IsAnalyzeDocType(d["document_type"])
                THEN \A key \in DOMAIN d["detected_info"].v :
                        /\ key \in DOMAIN after.collected_data
                        /\ after.collected_data[key] = d["detected_info"].v[key]
                ELSE after = State

\* a second call has overwritten a value the first one had merged
C22_Witness ==
    /\ last = "analyze_request"
    /\ "party_a_name" \in DOMAIN collected_data
    /\ collected_data["party_a_name"] = JStr("Beta LLC")
    /\ "duration" \in DOMAIN collected_data
    /\ document_type = "LEASE"

DocTypeAbsentOrValid(d) ==
    "document_type" \in DOMAIN d => IsAnalyzeDocType(d["document_type"])

(***************************************************************************)
(* prompts/patterns/reflection.py: get_section_config and generate_section *)
(***************************************************************************)
MAX_STEPS_BY_DOCTYPE ==
    [NDA |-> [confidential_info |-> 3, obligations |-> 3, exclusions |-> 2,
              remedies |-> 2],
     EMPLOYMENT |-> [compensation |-> 2, termination |-> 3, non_compete |-> 3,
                     intellectual_property |-> 2],
     SERVICE |-> [scope_of_work |-> 3, payment_terms |-> 2, liability |-> 3,
                  termination |-> 2],
     LEASE |-> [rent_terms |-> 2, maintenance |-> 2, termination |-> 3,
                security_deposit |-> 2]]

DEFAULT_CRITICAL_SECTIONS == <<"obligations", "liability", "termination">>

DEFAULT_MAX_STEPS == 2

\* document_type is a key of CRITICAL_SECTIONS_BY_DOCTYPE
HasSectionTable(doctype) ==
    /\ doctype.t = "string"
    /\ doctype.v \in DOMAIN CRITICAL_SECTIONS_BY_DOCTYPE

\* mutant: every document type uses the default critical sections
get_section_configDefaultOnly(section_type, doctype) ==
    IF section_type \in Range(DEFAULT_CRITICAL_SECTIONS)
    THEN [use_reflection |-> TRUE, max_steps |-> DEFAULT_MAX_STEPS]
    ELSE [use_reflection |-> FALSE, max_steps |-> 1]

get_section_config(section_type, doctype) ==
    LET critical_sections ==
            IF HasSectionTable(doctype)
            THEN CRITICAL_SECTIONS_BY_DOCTYPE[doctype.v]
            ELSE DEFAULT_CRITICAL_SECTIONS
        max_steps_config ==
            IF HasSectionTable(doctype)
            THEN MAX_STEPS_BY_DOCTYPE[doctype.v]
            ELSE EmptyDict
    IN IF section_type \in Range(critical_sections)
       THEN [use_reflection |-> TRUE,
             max_steps |-> IF section_type \in DOMAIN max_steps_config
                           THEN max_steps_config[section_type]
                           ELSE DEFAULT_MAX_STEPS]
       ELSE [use_reflection |-> FALSE, max_steps |-> 1]

\* the section types and contexts generate_section is called with
GeneratedSections ==
    {"header", "confidential_info", "obligations", "exclusions", "liability",
     "termination", "signatures"}

SectionContexts ==
    Cross(Opt("document_type", {JStr("NDA"), JStr("EMPLOYMENT"), JStr("SERVICE"),
                                JStr("LEASE"), JStr("WILL"), JStr("nda"), JNone}),
          Opt("party_a_name", {JStr("Acme Inc")}))

\* context.get("document_type", "NDA")
ContextDocumentType(context) == GetOr(context, "document_type", JStr("NDA"))

\* the section_prompt f-string
SectionPrompt(section_type, context) ==
    <<"Generate the", Upper(section_type), "section. Document Type:">>
    \o FormatTokens(ContextDocumentType(context))
    \o <<"Party A:">> \o FormatTokens(GetOr(context, "party_a_name", JStr("N/A")))
    \o <<"Generate only the", section_type, "section">>

\* the system prompts of the two paths
SectionSystemPrompt(section_type) ==
    <<"You are generating the", section_type, "section of a legal document.">>

DirectSystemPrompt(section_type) ==
    <<"You are a legal document assistant. Generate the", section_type,
      "section professionally.">>

\* generate_section up to the choice of its path; the reflection path
\* begins a ReflectionAgent.run with n_steps = config["max_steps"]
GenerateSection ==
    \E section_type \in GeneratedSections, context \in SectionContexts :
        \E config \in {get_section_config(section_type,
                                          ContextDocumentType(context))} :
           /\ section = NoSection
           /\ section' = [at |-> IF config.use_reflection THEN "reflection"
                                 ELSE "direct",
                          section_type |-> section_type,
                          context |-> context,
                          config |-> config]
           /\ IF config.use_reflection
              THEN BeginRun("run", config.max_steps,
                            SectionPrompt(section_type, context),
                            SectionSystemPrompt(section_type))
              ELSE UNCHANGED reflvars
           /\ UNCHANGED <<section_result, direct_requests>>
           /\ UNCHANGED <<stvars, last, result, turnvars, windowvars, sessionvars>>

\* the run returned: generate_section returns its content and counts
SectionReturns ==
    /\ section.at = "reflection"
    /\ rpc = "returned"
    /\ section' = [section EXCEPT !.at = "returned"]
    /\ section_result' = [section_type |-> section.section_type,
                          content |-> run_result.content,
                          method |-> "reflection",
                          iterations |-> run_result.iterations,
                          approved |-> run_result.approved]
    /\ UNCHANGED direct_requests
    /\ UNCHANGED <<stvars, last, result, turnvars, reflvars, windowvars, sessionvars>>

\* the run raised: generate_section raises with it
SectionRaises ==
    /\ section.at = "reflection"
    /\ rpc = "raised"
    /\ section' = [section EXCEPT !.at = "raised"]
    /\ UNCHANGED <<section_result, direct_requests>>
    /\ UNCHANGED <<stvars, last, result, turnvars, reflvars, windowvars, sessionvars>>

DirectRequest ==
    [messages |-> <<Message("user", SectionPrompt(section.section_type,
                                                  section.context))>>,
     system |-> DirectSystemPrompt(section.section_type)]

\* the direct path: one llm.chat call and its answer
DirectCompletion ==
    /\ section.at = "direct"
    /\ \E content \in GenerationCompletions :
           section_result' = [section_type |-> section.section_type,
                              content |-> CompletionText(content),
                              method |-> "direct",
                              iterations |-> 1,
                              approved |-> TRUE]
    /\ direct_requests' = Append(direct_requests, DirectRequest)
    /\ section' = [section EXCEPT !.at = "returned"]
    /\ UNCHANGED <<stvars, last, result, turnvars, reflvars, windowvars, sessionvars>>

\* llm.chat raises on the direct path
DirectFails ==
    /\ section.at = "direct"
    /\ direct_requests' = Append(direct_requests, DirectRequest)
    /\ section' = [section EXCEPT !.at = "raised"]
    /\ UNCHANGED section_result
    /\ UNCHANGED <<stvars, last, result, turnvars, reflvars, windowvars, sessionvars>>

SectionNext ==
    \/ GenerateSection
    \/ Generate
    \/ Reflect
    \/ Exhausted
    \/ CompletionFails
    \/ SectionReturns
    \/ SectionRaises
    \/ DirectCompletion
    \/ DirectFails

SectionSpec == Init /\ [][SectionNext]_vars

(***************************************************************************)
(* Claim about generate_section, checked under SectionSpec                 *)
(***************************************************************************)
\* the critical set the tables give a document type
CriticalSetOf(doc) ==
    CASE doc = JStr("NDA") ->
             {"confidential_info", "obligations", "exclusions", "remedies"}
      [] doc = JStr("EMPLOYMENT") ->
             {"compensation", "termination", "non_compete", "intellectual_property"}
      [] doc = JStr("SERVICE") ->
             {"scope_of_work", "payment_terms", "liability", "termination"}
      [] doc = JStr("LEASE") ->
             {"rent_terms", "maintenance", "termination", "security_deposit"}
      [] OTHER -> {"obligations", "liability", "termination"}

\* the cap the tables give a critical section
CapOf(section_type, doc) ==
    IF HasSectionTable(doc) THEN MAX_STEPS_BY_DOCTYPE[doc.v][section_type] ELSE 2

\* C24: a generate_section call for a section in the critical set of the
\* context's document type (the default set obligations / liability /
\* termination for an unknown type) runs the ReflectionAgent with the cap
\* configured for that section, makes no direct call, and returns
\* method = reflection with iterations <= cap; a call for any other section
\* makes exactly one direct call, never runs the agent, and returns
\* method = direct, iterations = 1, approved = true. For NDA,
\* confidential_info takes the reflection path and header the direct path.
C24_PathFollowsDocumentType ==
    section.at # "none" =>
        \A doc \in {ContextDocumentType(section.context)} :
           /\ IF section.section_type \in CriticalSetOf(doc)
              THEN /\ section.at \in {"reflection", "returned", "raised"}
                   /\ direct_requests = <<>>
                   /\ rvariant = "run"
                   /\ n_steps = CapOf(section.section_type, doc)
                   /\ RequestsOf("generate") <= n_steps
                   /\ section.at = "returned" =>
                          /\ section_result.method = "reflection"
                          /\ section_result.iterations = run_result.iterations
                          /\ section_result.iterations
                                 <= CapOf(section.section_type, doc)
                          /\ section_result.approved = run_result.approved
                          /\ section_result.content = run_result.content
              ELSE /\ section.at \in {"direct", "returned", "raised"}
                   /\ rpc = "idle"
                   /\ requests = <<>>
                   /\ Len(direct_requests) = IF section.at = "direct" THEN 0 ELSE 1
                   /\ section.at = "returned" =>
                          /\ section_result.method = "direct"
                          /\ section_result.iterations = 1
                          /\ section_result.approved = TRUE
           /\ section_result # NoSectionResult =>
                  section_result.section_type = section.section_type
           /\ (doc = JStr("NDA") /\ section.section_type = "confidential_info")
                  => section.at \in {"reflection", "returned", "raised"}
           /\ (doc = JStr("NDA") /\ section.section_type = "header")
                  => section.at \in {"direct", "returned", "raised"}
                     /\ rpc = "idle"

\* an NDA confidential_info section that used all three of its steps
C24_Witness ==
    /\ section.at = "returned"
    /\ section.section_type = "confidential_info"
    /\ ContextDocumentType(section.context) = JStr("NDA")
    /\ section_result.method = "reflection"
    /\ section_result.iterations = 3
    /\ ~section_result.approved

(***************************************************************************)
(* Claim about collected_data over a session, checked under Spec           *)
(***************************************************************************)
\* C29: over any sequence of tool calls, document_type changes and phase
\* advances, every key of collected_data stays a key of collected_data (its
\* value may change).
C29_CollectedDataOnlyGrows ==
    [][DOMAIN collected_data \subseteq DOMAIN collected_data']_vars

\* data collected by two tools, kept through a change of document type
C29_Witness ==
    /\ last = "extract_structured_data"
    /\ document_type = "SERVICE"
    /\ {"party_a_name", "duration", "governing_law"} \subseteq DOMAIN collected_data

(***************************************************************************)
(* ValidationSpec: validate_tool_input applied to one input after another. *)
(* result holds the call: the tool, the input, whether attempt_recovery    *)
(* ran and what it returned, and what validate_tool_input came to.         *)
(***************************************************************************)
SectionValidationInputs ==
    Cross(Cross(Opt("section_type", {JStr("header"), JStr("bogus"), JNum(1), JNone}),
                Opt("content", {JText(<<"a">>), JStr(""), JNum(3)})),
          Cross(Opt("section_number", {JNum(2)}),
                Opt("section", {JStr("header")})))

ValidationInputs(tool_name) ==
    CASE tool_name = "generate_document_section" ->
             SectionInputs \cup SectionValidationInputs
      [] tool_name = "analyze_request" ->
             AnalyzeRequests
             \cup Cross(InputsOf(tool_name), Opt("section_type", {JStr("header")}))
      [] OTHER -> Cross(InputsOf(tool_name), Opt("section_type", {JStr("header")}))

\* result.recovered holds what each call of attempt_recovery returned: the
\* function is called once, after a ValidationError, and not at all otherwise
ValidateToolInput ==
    \E tool_name \in KnownTools :
        \E input_data \in ValidationInputs(tool_name) :
           /\ last' = "validate_tool_input"
           /\ result' =
                  [tool_name |-> tool_name,
                   input_data |-> input_data,
                   recovery_ran |-> ~SchemaValid(tool_name, input_data),
                   recovered |-> IF SchemaValid(tool_name, input_data)
                                 THEN <<>>
                                 ELSE <<attempt_recovery(tool_name, input_data)>>,
                   validated |-> validate_tool_input(tool_name, input_data)]
           /\ UNCHANGED <<stvars, turnvars, agentvars>>

ValidationNext == ValidateToolInput

ValidationSpec == Init /\ [][ValidationNext]_vars

\* d holds no section_type, or the very one the caller's input holds
SectionTypeFrom(d, input_data) ==
    "section_type" \in DOMAIN d =>
        /\ "section_type" \in DOMAIN input_data
        /\ d["section_type"] = input_data["section_type"]

\* C30: validate_tool_input fails on a generate_document_section input
\* without section_type (recovery runs and returns None), and neither
\* recovery nor validate_tool_input ever returns, for any tool, an input with
\* a section_type that the caller's input does not hold.
C30_NoInventedSectionType ==
    last = "validate_tool_input" =>
        /\ (/\ result.tool_name = "generate_document_section"
            /\ "section_type" \notin DOMAIN result.input_data)
               => /\ ~result.validated.ok
                  /\ result.recovery_ran
                  /\ Len(result.recovered) = 1
                  /\ ~result.recovered[1].ok
        /\ \A i \in DOMAIN result.recovered :
               result.recovered[i].ok
                  => SectionTypeFrom(result.recovered[i].value, result.input_data)
        /\ result.validated.ok
               => SectionTypeFrom(result.validated.value, result.input_data)

\* a section call with content and no section_type was rejected
C30_Witness ==
    /\ last = "validate_tool_input"
    /\ result.tool_name = "generate_document_section"
    /\ "section_type" \notin DOMAIN result.input_data
    /\ "content" \in DOMAIN result.input_data
    /\ result.recovery_ran
    /\ ~result.validated.ok

(***************************************************************************)
(* SessionSpec: features/chat/routes.py under concurrent requests.  Each   *)
(* request runs on its own thread; a step is what one thread does between *)
(* two points where another thread can run.  Requests arrive in the order  *)
(* of their numbers and then run in any interleaving.                      *)
(***************************************************************************)
Routes == {"chat", "reset"}

\* mutant: the lock never blocks
LockIsFreeAlways == TRUE

\* _sessions_lock can be acquired
LockIsFree == lock = 0

\* mutant: every ConversationState is given the same list object
default_factoryShared(heap) ==
    IF heap = <<>> THEN [ref |-> 1, heap |-> <<<<>>>>] ELSE [ref |-> 1, heap |-> heap]

\* field(default_factory=...): a new, empty object
default_factory(heap) == [ref |-> Len(heap) + 1, heap |-> Append(heap, <<>>)]

Entry(r, kind) == [by |-> r, kind |-> kind]

\* everything but the session table and its requests
nonsession == <<stvars, last, result, turnvars, reflvars, windowvars, sectionvars>>

\* the request reaches its route; the message and session id are valid
Arrive(r) ==
    /\ reqs[r].pc = "new"
    /\ IF r = 1 THEN TRUE ELSE reqs[r - 1].pc # "new"
    /\ \E route \in Routes, session_id \in SessionIds :
          reqs' = [reqs EXCEPT ![r] = [NotArrived EXCEPT !.pc = "acquire",
                                                         !.route = route,
                                                         !.session_id = session_id]]
    /\ UNCHANGED <<sessions, lock, objects, cells, epoch>>
    /\ UNCHANGED nonsession

\* with _sessions_lock: entered, and session_id in _sessions evaluated, in
\* get_or_create_session and in reset
Enter(r) ==
    /\ reqs[r].pc = "acquire"
    /\ LockIsFree
    /\ lock' = r
    /\ \E found \in {sessions[reqs[r].session_id] # 0} :
          reqs' = [reqs EXCEPT ![r].found = found,
                               ![r].pc = IF reqs[r].route = "reset" THEN "delete"
                                         ELSE IF found THEN "return" ELSE "create"]
    /\ UNCHANGED <<sessions, objects, cells, epoch>>
    /\ UNCHANGED nonsession

\* _sessions[session_id] = ChatService(): a ConversationState with its defaults
Create(r) ==
    /\ reqs[r].pc = "create"
    /\ \E history_list \in {default_factory(cells)} :
         \E collected_dict \in {default_factory(history_list.heap)} :
            /\ cells' = collected_dict.heap
            /\ objects' = Append(objects,
                                 [session_id |-> reqs[r].session_id,
                                  epoch |-> epoch[reqs[r].session_id],
                                  phase |-> "intake",
                                  current_document |-> 0,
                                  history |-> history_list.ref,
                                  collected_data |-> collected_dict.ref])
    /\ sessions' = [sessions EXCEPT ![reqs[r].session_id] = Len(objects) + 1]
    /\ reqs' = [reqs EXCEPT ![r].pc = "return"]
    /\ UNCHANGED <<lock, epoch>>
    /\ UNCHANGED nonsession

\* return _sessions[session_id], and the lock is released; the lookup
\* raises KeyError when the id is not in the table
Return(r) ==
    /\ reqs[r].pc = "return"
    /\ reqs' = [reqs EXCEPT ![r].service = sessions[reqs[r].session_id],
                            ![r].epoch = epoch[reqs[r].session_id],
                            ![r].pc = IF sessions[reqs[r].session_id] = 0 THEN "raised"
                                      ELSE "user"]
    /\ lock' = 0
    /\ UNCHANGED <<sessions, objects, cells, epoch>>
    /\ UNCHANGED nonsession

\* reset: del _sessions[session_id] if the id was found, and the lock is released
ResetSession(r) ==
    /\ reqs[r].pc = "delete"
    /\ sessions' = IF reqs[r].found THEN [sessions EXCEPT ![reqs[r].session_id] = 0]
                   ELSE sessions
    /\ epoch' = [epoch EXCEPT ![reqs[r].session_id] = @ + 1]
    /\ lock' = 0
    /\ reqs' = [reqs EXCEPT ![r].pc = "done"]
    /\ UNCHANGED <<objects, cells>>
    /\ UNCHANGED nonsession

\* service.chat: self.state.add_message("user", user_message)
AddUser(r) ==
    /\ reqs[r].pc = "user"
    /\ cells' = [cells EXCEPT ![objects[reqs[r].service].history] =
                                  Append(@, Entry(r, "user"))]
    /\ reqs' = [reqs EXCEPT ![r].pc = "llm"]
    /\ UNCHANGED <<sessions, lock, objects, epoch>>
    /\ UNCHANGED nonsession

\* the rest of the turn: when the completion asks for a tool, the call is
\* recorded in history and run, and changes collected_data, phase and
\* current_document; then add_message("assistant", ...) and the turn ends
Finish(r) ==
    /\ reqs[r].pc = "llm"
    /\ \E o \in {reqs[r].service}, tools \in BOOLEAN :
          IF tools
          THEN /\ cells' = [cells EXCEPT
                               ![objects[o].history] =
                                   @ \o <<Entry(r, "tool"), Entry(r, "assistant")>>,
                               ![objects[o].collected_data] =
                                   Append(@, Entry(r, "data"))]
               /\ objects' = [objects EXCEPT ![o].phase = "clarification",
                                             ![o].current_document = r]
          ELSE /\ cells' = [cells EXCEPT ![objects[o].history] =
                                             Append(@, Entry(r, "assistant"))]
               /\ UNCHANGED objects
    /\ reqs' = [reqs EXCEPT ![r].pc = "done"]
    /\ UNCHANGED <<sessions, lock, epoch>>
    /\ UNCHANGED nonsession

SessionNext ==
    \E r \in Requests :
        \/ Arrive(r)
        \/ Enter(r)
        \/ Create(r)
        \/ Return(r)
        \/ ResetSession(r)
        \/ AddUser(r)
        \/ Finish(r)

SessionSpec == Init /\ [][SessionNext]_vars

(***************************************************************************)
(* Claims about the session table, checked under SessionSpec               *)
(***************************************************************************)
\* the positions at which a request reads or writes _sessions
TableAccess == {"create", "return", "delete"}

\* the requests that hold a service
Serving == {r \in Requests : reqs[r].service # 0}

\* C25: a request reads or writes the session table only while it holds the
\* lock; at most one ChatService is created for a session id between two
\* resets of that id; and all get_or_create_session calls for the id between
\* two resets return the same instance.
C25_TableUnderLock ==
    /\ \A r \in Requests : reqs[r].pc \in TableAccess => lock = r
    /\ \A i, j \in DOMAIN objects :
          (/\ objects[i].session_id = objects[j].session_id
           /\ objects[i].epoch = objects[j].epoch) => i = j
    /\ \A r1, r2 \in Serving :
          (/\ reqs[r1].session_id = reqs[r2].session_id
           /\ reqs[r1].epoch = reqs[r2].epoch) => reqs[r1].service = reqs[r2].service

\* two requests hold the one service of a session while a third waits for
\* the lock that a reset holds
C25_Witness ==
    \E r1, r2 \in Serving :
        /\ r1 # r2
        /\ reqs[r1].session_id = reqs[r2].session_id
        /\ reqs[r1].service = reqs[r2].service
        /\ \E r3 \in Requests : reqs[r3].route = "reset" /\ lock = r3

\* the list and dict objects of the ConversationState of service o
ContainersOf(o) == {objects[o].history, objects[o].collected_data}

\* the ConversationState of service o is as the constructor leaves it
IsNewState(o) ==
    /\ objects[o].phase = "intake"
    /\ objects[o].current_document = 0
    /\ cells[objects[o].history] = <<>>
    /\ cells[objects[o].collected_data] = <<>>

\* C26: a request that fetches its service after the e-th reset of its
\* session id gets the service created after that reset; that service's
\* ConversationState is new when it is created (phase Intake, no document,
\* empty history and collected_data), shares no list or dict with any other
\* service, and is written only by requests that hold it: what a turn in
\* flight on an older service writes never shows in it.
C26_ResetGivesNewState ==
    /\ \A r \in Serving :
          /\ objects[reqs[r].service].session_id = reqs[r].session_id
          /\ objects[reqs[r].service].epoch = reqs[r].epoch
    /\ \A r \in Requests :
          (reqs[r].pc = "return" /\ ~reqs[r].found)
              => IsNewState(sessions[reqs[r].session_id])
    /\ \A i, j \in DOMAIN objects :
          i # j => ContainersOf(i) \cap ContainersOf(j) = {}
    /\ \A o \in DOMAIN objects :
          /\ \A ref \in ContainersOf(o) : \A k \in DOMAIN cells[ref] :
                reqs[cells[ref][k].by].service = o
          /\ objects[o].current_document # 0
                => reqs[objects[o].current_document].service = o
          /\ objects[o].phase # "intake" => objects[o].current_document # 0

\* a turn that began before a reset is still in flight, after having written
\* to its service, while a later turn on the same id has run on a new one
C26_Witness ==
    \E r1, r2 \in Serving :
        /\ reqs[r1].session_id = reqs[r2].session_id
        /\ reqs[r1].epoch < reqs[r2].epoch
        /\ reqs[r1].pc = "llm"
        /\ reqs[r2].pc = "done"
        /\ cells[objects[reqs[r1].service].history] = <<Entry(r1, "user")>>
        /\ objects[reqs[r2].service].current_document = r2

\* C27 (as claimed): in every history and collected_data of a session the
\* entries of one turn are together: no entry of another turn lies between
\* two entries of the same turn.
C27_TurnsDoNotInterleave ==
    \A ref \in DOMAIN cells :
        \A i, j, k \in DOMAIN cells[ref] :
            (i < j /\ j < k /\ cells[ref][i].by = cells[ref][k].by)
                => cells[ref][j].by = cells[ref][i].by

(***************************************************************************)
(* Claim about a transport failure in a streaming turn, checked under      *)
(* TurnSpec                                                                *)
(***************************************************************************)
\* the events of a type among those written
EventsOfType(type) == {i \in DOMAIN sse : sse[i].type = type}

\* a streaming turn has ended with a failure of llm.chat
StreamTurnFailed ==
    /\ variant = "chat_stream"
    /\ pc = "idle"
    /\ response = [kind |-> "raised", text |-> "LLMError"]

C28_OneErrorEvent ==
    StreamTurnFailed =>
        /\ http = "closed"
        /\ Cardinality(EventsOfType("error")) = 1
        /\ EventsOfType("done") = {}
        /\ sse[Len(sse)].type = "error"
        /\ sse[Len(sse)].recoverable = TRUE
        /\ sse[Len(sse)].suggestion # ""
        /\ iteration = 1 =>
              /\ ToContext(State) = system_prompt.context
              /\ Len(sse) = 2

C28_FailureKeepsState ==
    (variant = "chat_stream" /\ pc = "loop" /\ response'.kind = "raised")
        => /\ response'.text = "LLMError"
           /\ pc' = "idle"
           /\ phase' = phase
           /\ document_type' = document_type
           /\ collected_data' = collected_data
           /\ missing_fields' = missing_fields
           /\ current_document' = current_document

\* C28: when llm.chat fails in a streaming turn, the stream is closed with
\* exactly one error event, its last, recoverable and carrying a suggestion,
\* and no done event; no exception leaves the route; the failing step leaves
\* phase, document_type, collected_data, missing_fields and current_document
\* as the tool calls of the turn left them (as at the start of the turn when
\* the first request failed); and the service is idle, ready for a turn.
C28_StreamFailureIsOneErrorEvent ==
    []C28_OneErrorEvent /\ [][C28_FailureKeepsState]_vars

\* the second request of a streaming turn failed after a tool call of the
\* turn had written a document, which is kept
C28_Witness ==
    /\ StreamTurnFailed
    /\ iteration >= 2
    /\ EventsOfType("document_update") # {}
    /\ Truthy(current_document)
    /\ sse[Len(sse)].type = "error"

\* C23: validate_tool_input repairs an analyze_request input whose
\* document_type is absent or valid: without intent and confidence the
\* outcome passes the schema with intent = unclear and confidence = 0.5; a
\* numeric confidence outside [0, 1] is clamped to the nearer end; an intent
\* outside the enumeration becomes unclear.
C23_AnalyzeRecovery ==
    (/\ last = "validate_tool_input"
     /\ result.tool_name = "analyze_request"
     /\ DocTypeAbsentOrValid(result.input_data)) =>
        \A d \in {result.input_data} : \A validated \in {result.validated} :
           /\ ("intent" \notin DOMAIN d /\ "confidence" \notin DOMAIN d) =>
                 /\ validated.ok
                 /\ SchemaValid("analyze_request", validated.value)
                 /\ validated.value["intent"] = JStr("unclear")
                 /\ validated.value["confidence"] = JNum(50)
           /\ ("confidence" \in DOMAIN d /\ IsNumber(d["confidence"])
               /\ ~IsConfidence(d["confidence"])) =>
                 /\ validated.ok
                 /\ SchemaValid("analyze_request", validated.value)
                 /\ validated.value["confidence"] =
                        JNum(IF d["confidence"].v > 100 THEN 100 ELSE 0)
           /\ ("intent" \in DOMAIN d /\ ~IsIntent(d["intent"])) =>
                 /\ validated.ok
                 /\ SchemaValid("analyze_request", validated.value)
                 /\ validated.value["intent"] = JStr("unclear")

\* an input with a confidence below 0 and an intent outside the enumeration
\* has been repaired
C23_Witness ==
    /\ last = "validate_tool_input"
    /\ result.tool_name = "analyze_request"
    /\ result.recovery_ran
    /\ {"confidence", "intent"} \subseteq DOMAIN result.input_data
    /\ result.input_data["confidence"] = JNum(0 - 10)
    /\ result.input_data["intent"] = JStr("bogus")
    /\ result.validated.ok
    /\ result.validated.value["confidence"] = JNum(0)
    /\ result.validated.value["intent"] = JStr("unclear")

(***************************************************************************)
(* analyze_request and the document type (handlers.py 78-97)               *)
(***************************************************************************)
\* the type a call names, when it is one of DocumentType's values
NamesType(d) ==
    /\ "document_type" \in DOMAIN d
    /\ IsStr(d["document_type"])
    /\ d["document_type"].v \in DocumentTypes

\* what missing_info and detected_info of a call that reached the handler
\* make of a list of missing fields (a detected_info that is no mapping
\* makes dict.update raise before any field is removed)
MissingAfterCall(d, fields) ==
    LET supplied == IF Truthy(Get(d, "missing_info"))
                    THEN d["missing_info"].v ELSE fields
    IN IF Truthy(Get(d, "detected_info")) /\ IsObj(d["detected_info"])
       THEN RemoveEach(supplied, DOMAIN d["detected_info"].v)
       ELSE supplied

\* the effect of one analyze_request call d on the type and the missing
\* fields: none when validation rejects the call; a recognised type other
\* than the current one is set and missing_fields recomputed from the
\* table; otherwise the type stays and missing_fields comes from the old list
TypeEffect(d) ==
    \A out \in {handle_tool_call("analyze_request", d, State, NoReflection)} :
        IF IsValidationError(out.result)
        THEN /\ out.state.document_type = document_type
             /\ out.state.missing_fields = missing_fields
        ELSE IF NamesType(d) /\ d["document_type"].v # document_type
        THEN /\ out.state.document_type = d["document_type"].v
             /\ out.state.missing_fields =
                    MissingAfterCall(d, RequiredNotCollected(d["document_type"].v,
                                                             collected_data))
        ELSE /\ out.state.document_type = document_type
             /\ out.state.missing_fields = MissingAfterCall(d, missing_fields)

\* C31: in every state, for every analyze_request call: document_type
\* changes only when the call names a recognised type other than the current
\* one, and then missing_fields is recomputed from the required-field table
\* (minus the collected keys) before missing_info and detected_info apply;
\* when the named type is absent, "UNKNOWN", unrecognised or the current
\* one, document_type is unchanged and missing_fields comes from the old
\* missing_fields, not from the table.
C31_TypeChangesOnlyOnDifferentType ==
    /\ \A d \in AnalyzeInputs : TypeEffect(d)
    /\ \A d \in AnalyzeRequests : TypeEffect(d)

\* a call naming LEASE changed the type after duration and governing_law
\* were collected
C31_Witness ==
    /\ last = "analyze_request"
    /\ document_type = "LEASE"
    /\ {"duration", "governing_law"} \subseteq DOMAIN collected_data
    /\ missing_fields = <<"landlord_name", "tenant_name", "property_address",
                          "rent_amount", "lease_duration", "security_deposit">>

(***************************************************************************)
(* AppendSpec: generate_document_section calls, one after another, on one  *)
(* session whose phase advances in between (handlers.py 200-226).  last    *)
(* and result record the call: its input and the result returned.         *)
(***************************************************************************)
\* the document grows up to this many tokens
MaxAppendedLen == 12

AppendInputs ==
    SectionInputs
    \cup {[section_type |-> JStr("parties"), content |-> JText(<<"b">>),
           section_number |-> JNum(2)],
          [section_type |-> JStr("remedies"), content |-> JText(<<>>),
           section_number |-> JStr("")]}

AppendSection ==
    \E input_data \in AppendInputs :
        \E out \in {handle_tool_call("generate_document_section", input_data,
                                     State, NoReflection)} :
           /\ DocLen(out.state) <= MaxAppendedLen
           /\ StateBecomes(out.state)
           /\ last' = "generate_document_section"
           /\ result' = [input_data |-> input_data, tool_result |-> out.result]
           /\ UNCHANGED <<turnvars, agentvars>>

AppendNext == AppendSection \/ AdvancePhase \/ ChangeDocumentType

AppendSpec == Init /\ [][AppendNext]_vars

\* the text of the document, "" for None
DocumentText(document) == IF document.t = "text" THEN document.v ELSE <<>>

\* the section a call asks for: newline, the number and ". " when a number
\* is given, the upper-cased label, a blank line, the content, newline
ExpectedSection(d) ==
    <<"\n">>
    \o (IF "section_number" \in DOMAIN d /\ Truthy(d["section_number"])
        THEN FormatTokens(d["section_number"]) \o <<". ">> ELSE <<>>)
    \o <<Upper(d["section_type"].v)>>
    \o <<"\n\n">>
    \o (IF "content" \in DOMAIN d THEN d["content"].v ELSE <<>>)
    \o <<"\n">>

\* C32: a generate_document_section call only appends: the document before
\* the call is a prefix of the document after it, what a successful call
\* adds is the formatted section, a call that fails adds nothing, and phase,
\* document_type, collected_data and missing_fields stay as they were.
C32_SectionOnlyAppends ==
    [][last' = "generate_document_section" =>
          /\ phase' = phase
          /\ document_type' = document_type
          /\ collected_data' = collected_data
          /\ missing_fields' = missing_fields
          /\ DocumentText(current_document') =
                DocumentText(current_document)
                \o (IF "success" \in DOMAIN result'.tool_result
                    THEN ExpectedSection(result'.input_data) ELSE <<>>)]_vars

\* a numbered section was appended to a document that held a section
C32_Witness ==
    /\ last = "generate_document_section"
    /\ current_document =
         JText(<<"\n", "HEADER", "\n\n", "a", "\n",
                 "\n", "2", ". ", "PARTIES", "\n\n", "b", "\n">>)

(***************************************************************************)
(* The events of run_stream (reflection.py 278-311), under ReflectionSpec  *)
(***************************************************************************)
\* what a finished run hands back, from the candidates and critiques its
\* completions gave: the first approving iteration, or the last candidate
ResultOf(n, generated, critiqued) ==
    LET approving == {i \in DOMAIN critiqued : Approves(critiqued[i])}
    IN IF approving # {}
       THEN LET i == CHOOSE j \in approving : \A m \in approving : j <= m
            IN [content |-> generated[i], iterations |-> i, approved |-> TRUE]
       ELSE [content |-> IF generated = <<>> THEN <<>>
                         ELSE generated[Len(generated)],
             iterations |-> n, approved |-> FALSE]

\* the event expected at position j: iteration i = ceil(j / 3) contributes
\* its step, generation and reflection events, in that order
IterationEvent(j) ==
    LET i == (j + 2) \div 3
        place == j - 3 * (i - 1)
    IN CASE place = 1 -> [type |-> "step", step |-> i, max_steps |-> n_steps]
         [] place = 2 -> [type |-> "generation", content |-> candidates[i]]
         [] place = 3 -> [type |-> "reflection", content |-> critiques[i]]

CompleteEvent(res) ==
    [type |-> "complete", content |-> res.content,
     iterations |-> res.iterations, approved |-> res.approved]

CallsArePaired ==
    \A j \in DOMAIN sse :
        sse[j].type = "function_call" =>
            /\ j < Len(sse)
            /\ sse[j + 1] = SseFunctionResult(sse[j].name)

\* a document_update event follows the function_result of one of the three
\* document tools, and names it
UpdatesFollowDocumentTools ==
    \A j \in DOMAIN sse :
        sse[j].type = "document_update" =>
            /\ j > 1
            /\ sse[j - 1].type = "function_result"
            /\ sse[j - 1].name \in DocumentUpdateTools
            /\ sse[j].action = sse[j - 1].name

\* when the tool calls of a completion have all been processed and the
\* last of them gave a document_update event, that event carries the
\* document as it stands
LastUpdateCarriesDocument ==
    (variant = "chat_stream" /\ pc = "loop" /\ sse # <<>>
     /\ sse[Len(sse)].type = "document_update")
        => sse[Len(sse)].content = current_document

\* C34 (as claimed): in chat_stream every tool call produces a function_call
\* event followed by a function_result event for the same tool before the
\* events of the next call; a document_update event follows only for
\* generate_document_section, generate_full_document and apply_revision,
\* and carries the accumulated document as it stands once the processing of
\* that tool call in the turn is complete.
C34_ToolCallEvents ==
    /\ CallsArePaired
    /\ UpdatesFollowDocumentTools
    /\ LastUpdateCarriesDocument

(***************************************************************************)
(* chat_stream, the completion without tool calls (service.py 151-166):    *)
(* the response text is a sequence of characters here, so that the slices  *)
(* full_response[i:i + chunk_size] are computed                            *)
(***************************************************************************)
MaxResponseLen == 45

chunk_size == 20

\* the characters of the response texts of the model
ResponseChar(i) == CASE i % 3 = 0 -> "a" [] i % 3 = 1 -> "b" [] OTHER -> "c"

\* choice.message.content: None, or a text of up to MaxResponseLen characters
StreamResponses ==
    {JNone} \cup
    {JText([i \in 1..n |-> ResponseChar(i + k)]) : n \in 0..MaxResponseLen, k \in 0..2}

\* for i in range(0, len(full_response), chunk_size): drops the last,
\* shorter slice
ContentChunksWholeOnly(full_response) ==
    [c \in 1..(Len(full_response) \div chunk_size) |->
        SubSeq(full_response, (c - 1) * chunk_size + 1, c * chunk_size)]

\* for i in range(0, len(full_response), chunk_size):
\*     full_response[i:i + chunk_size]
ContentChunks(full_response) ==
    [c \in 1..((Len(full_response) + chunk_size - 1) \div chunk_size) |->
        SubSeq(full_response, (c - 1) * chunk_size + 1,
               Min(c * chunk_size, Len(full_response)))]

ContentEvent(chunk) == [type |-> "content", data |-> chunk]

DoneEvent(content) == [type |-> "done", content |-> content]

\* the events chat_stream yields for a completion without tool calls
FinalEvents(full_response) ==
    (IF full_response # <<>>
     THEN [c \in DOMAIN ContentChunks(full_response) |->
              ContentEvent(ContentChunks(full_response)[c])]
     ELSE <<>>)
    \o <<DoneEvent(full_response)>>

\* chat_stream from the completion without tool calls to its return: the
\* content events, the assistant message, the done event
StreamFinalAnswer ==
    \E content \in StreamResponses :
        /\ history = <<>>
        /\ last' = "chat_stream"
        /\ history' = add_message(history, "assistant",
                                  JText(IF Truthy(content) THEN content.v ELSE <<>>))
        /\ result' = [content |-> content,
                      events |-> FinalEvents(IF Truthy(content) THEN content.v ELSE <<>>)]
        /\ UNCHANGED <<stvars, pc, variant, iteration, system_prompt, choice, tool_index,
                       response, request, executed, turn_start, turn_state, sse, http, agentvars>>

ChunkNext == StreamFinalAnswer

ChunkSpec == Init /\ [][ChunkNext]_vars

RECURSIVE ConcatData(_)
\* the data of a sequence of events, concatenated
ConcatData(evs) ==
    IF evs = <<>> THEN <<>> ELSE evs[1].data \o ConcatData(Tail(evs))

\* C35: for a completion without tool calls chat_stream yields content
\* events of at most 20 characters each whose concatenation is the full
\* response, then exactly one done event, the last, carrying the full text;
\* for an empty response it yields no content event and one done event.
C35_ChunksThenDone ==
    last = "chat_stream" =>
        \A full_response \in {IF Truthy(result.content) THEN result.content.v ELSE <<>>} :
            /\ result.events # <<>>
            /\ result.events[Len(result.events)] = DoneEvent(full_response)
            /\ \A j \in 1..(Len(result.events) - 1) :
                  /\ result.events[j].type = "content"
                  /\ Len(result.events[j].data) <= 20
            /\ ConcatData(SubSeq(result.events, 1, Len(result.events) - 1)) = full_response
            /\ full_response = <<>> => Len(result.events) = 1
            /\ history[Len(history)].content.v = full_response

\* a response of 45 characters went out as slices of 20, 20 and 5
C35_Witness ==
    /\ last = "chat_stream"
    /\ Len(result.events) = 4
    /\ Len(result.events[1].data) = 20
    /\ Len(result.events[2].data) = 20
    /\ Len(result.events[3].data) = 5
    /\ result.events[4].type = "done"
    /\ Len(result.events[4].content) = 45

(***************************************************************************)
(* chat and chat_stream on the same completions, under TurnSpec: what chat *)
(* does with the completions of a finished chat_stream turn is computed    *)
(* from the state the turn began in (service.py 22-63, 171-222)            *)
(***************************************************************************)
RECURSIVE ChatCalls(_, _)
\* _execute_tool_calls as chat runs it, the loop: each call is parsed and
\* handled once and its result appended to history; outs are the states
\* and histories chat can be in (one per outcome of the reflection agent)
ChatCalls(calls, outs) ==
    IF calls = <<>> THEN outs
    ELSE ChatCalls(
            Tail(calls),
            UNION {{[state |-> run.state,
                     history |-> Append(out.history, ToolMessage(calls[1], run.result))] :
                        run \in {handle_tool_call(calls[1].name, ToolInputDict(parsed.input),
                                                  out.state, reflection) :
                                    reflection \in ReflectionsOf(calls[1].name)}} :
                   out \in outs,
                   parsed \in {p \in ParsedInputs(calls[1]) : ~p.raised}})

RECURSIVE ChatRounds(_, _)
\* the loop of chat over the completions that the entries of a turn record:
\* an entry with tool_calls is a completion that chat hands to
\* _execute_tool_calls, an assistant text is the final completion, the
\* tool entries are results (chat computes its own)
ChatRounds(entries, outs) ==
    IF entries = <<>> THEN outs
    ELSE IF "tool_calls" \in DOMAIN entries[1]
    THEN ChatRounds(Tail(entries),
                    ChatCalls(entries[1].tool_calls,
                              {[state |-> out.state,
                                history |-> Append(out.history, entries[1])] :
                                  out \in outs}))
    ELSE IF entries[1].role = "tool"
    THEN ChatRounds(Tail(entries), outs)
    ELSE ChatRounds(Tail(entries),
                    {[state |-> out.state,
                      history |-> add_message(out.history, "assistant", entries[1].content)] :
                        out \in outs})

\* what chat returns: the content of the final completion or "", and at the
\* iteration cap the content of the last completion or the fixed text
ChatReturn(kind, c) ==
    IF kind = "final" THEN ContentOr(c, "") ELSE ContentOr(c, MAX_ITERATIONS_TEXT)

\* a chat_stream turn has come to its end with a done event
StreamTurnDone ==
    /\ variant = "chat_stream"
    /\ pc = "idle"
    /\ response.kind \in {"final", "max"}

\* the states and histories chat ends with on the completions of this turn
ChatOutcomes ==
    ChatRounds(SubSeq(history, turn_start + 2, Len(history)),
               {[state |-> turn_state,
                 history |-> SubSeq(history, 1, turn_start + 1)]})

\* a finished chat turn of the model ends in one of ChatOutcomes, with the
\* text ChatReturn gives
ChatOutcomesAreChat ==
    (variant = "chat" /\ pc = "idle" /\ response.kind \in {"final", "max"}) =>
        /\ \E out \in ChatOutcomes : out.state = State /\ out.history = history
        /\ response.text = ChatReturn(response.kind, choice)

\* the conversation state and history after the chat_stream turn are those
\* chat ends with
C36_SameStateAndHistory ==
    StreamTurnDone =>
        \E out \in ChatOutcomes : out.state = State /\ out.history = history

\* the content of the done event is the text chat returns
C36_SameText ==
    StreamTurnDone => response.text = ChatReturn(response.kind, choice)

\* C36 (as claimed): for the same user message, starting state and
\* completions, chat and chat_stream end with the same phase, document_type,
\* collected_data, missing_fields, current_document and history, and the
\* text chat returns is the content of the done event of chat_stream, also
\* when the iteration cap is hit.
C36_StreamEqualsChat ==
    /\ C36_SameStateAndHistory
    /\ C36_SameText

(***************************************************************************)
(* The history entry for the text a turn returns (service.py 53-63,        *)
(* 151-169), under TurnSpec                                                *)
(***************************************************************************)
\* the last entry of history is the assistant text message with this text
EndsWithAssistantText(text) ==
    /\ history # <<>>
    /\ history[Len(history)] = [role |-> "assistant", content |-> JStr(text)]

\* a turn that ends on a completion without tool calls records its text
FinalTextRecorded ==
    (pc = "idle" /\ response.kind = "final") => EndsWithAssistantText(response.text)

\* C38 (as claimed): every turn of chat or chat_stream that returns normally
\* leaves history ending with an assistant text message whose content is
\* the text returned to the caller, also a turn that stops at the iteration
\* cap.
C38_HistoryEndsWithReturnedText ==
    (pc = "idle" /\ response.kind \in {"final", "max"})
        => EndsWithAssistantText(response.text)

(***************************************************************************)
(* Error results of handle_tool_call (handlers.py 42-58), under Spec       *)
(***************************************************************************)
\* an unknown tool and a validation error are answered before any handler
\* runs: the state is as it was
EarlyErrorKeepsState ==
    [][("error" \in DOMAIN result'
        /\ result'.error \in {"Unknown tool", "Validation error"})
          => UNCHANGED stvars]_vars

\* C37 (as claimed): when handle_tool_call returns an error result (unknown
\* tool, validation error, or a handler's exception turned into a result
\* with recoverable false) the conversation state is as it was before the
\* call: no tool call is applied in part.
C37_ErrorLeavesState ==
    [][("error" \in DOMAIN result') => UNCHANGED stvars]_vars

(***************************************************************************)
(* DraftSpec: the two tools that set phase to revision, called on a new    *)
(* session in any order (handlers.py 272-282, 309-325)                     *)
(***************************************************************************)
DraftFullDocument ==
    \E tool_input \in FullDocumentInputs,
       reflection \in ReflectionsOf("generate_full_document") :
        \E out \in {handle_tool_call("generate_full_document", tool_input, State,
                                     reflection)} :
           /\ DocLen(out.state) <= MaxDocLen
           /\ StateBecomes(out.state)
           /\ last' = "generate_full_document"
           /\ result' = out.result
           /\ UNCHANGED <<turnvars, agentvars>>

DraftRevision ==
    \E tool_input \in RevisionRequests :
        \E out \in {handle_tool_call("apply_revision", tool_input, State, NoReflection)} :
           /\ DocLen(out.state) <= MaxDocLen
           /\ StateBecomes(out.state)
           /\ last' = "apply_revision"
           /\ result' = out.result
           /\ UNCHANGED <<turnvars, agentvars>>

DraftNext == DraftFullDocument \/ DraftRevision

DraftSpec == Init /\ [][DraftNext]_vars

\* an apply_revision made in phase revision is not answered with
\* "No document to revise"
RevisionFindsDocument ==
    [][(phase = "revision" /\ last' = "apply_revision")
          => ~("error" \in DOMAIN result' /\ result'.error = "No document to revise")]_vars

\* C39 (as claimed): in every state that tool calls reach, phase = revision
\* implies that a document exists: current_document is set and not empty.
C39_RevisionHasDocument ==
    phase = "revision" => Truthy(current_document)

(***************************************************************************)
(* The generation requests of ReflectionAgent.run (reflection.py 198-238), *)
(* under ReflectionSpec                                                    *)
(***************************************************************************)
\* the messages of a request start with the generation system prompt
StartsWithSystemPrompt(messages) ==
    /\ messages # <<>>
    /\ messages[1].role = "system"
    /\ \E generation_system_prompt \in GenerationPrompts :
          messages[1].content = generation_system_prompt
                                \o <<"\n\n", GENERATION_SYSTEM_PROMPT>>

\* the messages of a request hold the user request the run was called with
HoldsUserRequest(messages) ==
    \E user_msg \in UserRequests : Message("user", user_msg) \in Range(messages)

\* every generation request starts with the generation system prompt
GenerationStartsWithSystemPrompt ==
    \A r \in DOMAIN requests :
        requests[r].kind = "generate" => StartsWithSystemPrompt(requests[r].messages)

\* C40 (as claimed): at every generation request made by
\* ReflectionAgent.run, for every n_steps from 1 to 5, the generation
\* history starts with the generation system prompt and still holds the
\* original user request message.
C40_GenerationKeepsUserRequest ==
    rvariant = "run" =>
        \A r \in DOMAIN requests :
            requests[r].kind = "generate" =>
                /\ StartsWithSystemPrompt(requests[r].messages)
                /\ HoldsUserRequest(requests[r].messages)

====
